---- MODULE Spec2Model ----
(***************************************************************************)
(* Model of the transactional staging layer over the real filesystem:      *)
(* packages/qwik/src/cli/plugin-sdk/virtual-file-tree.ts                   *)
(* (class VirtualFileTree and class VirtualFileTreeCheckpoint).            *)
(*                                                                         *)
(* The real filesystem under rootDir is the variable disk.  Every method   *)
(* of the class is one action; the asynchronous methods are awaited by the *)
(* caller one after the other, so each runs to completion as one step.     *)
(***************************************************************************)
EXTENDS Integers, Sequences, FiniteSets, TLC

\* ---------------------------------------------------------------- bounds
\* number of calls in one run of the program that add to the queue, the cache,
\* the original-state store or the checkpoints
MaxOps == 3
\* longest file content the model stages (append/prepend are cut off there)
MaxLen == 3
\* number of VirtualFileTreeCheckpoint objects the caller creates
MaxCheckpoints == 1
\* number of keys on which the environment fails one commit() or rollback()
MaxFaults == 1

\* ------------------------------------------------------------ the universe
\* canonical relative keys the caller passes: a path at the root (which may
\* be a directory on disk) and a file nested in the directory "d"
Paths == {"a", "d/f"}

\* every key of the filesystem under rootDir
FsKeys == Paths \cup {"d"}

\* the key of rootDir itself; rootDir always exists and is a directory
RootKey == ""

\* dirname(resolve(rootDir, p)), as a key relative to rootDir
Dirname(p) == IF p = "d/f" THEN "d" ELSE RootKey

\* contents callers pass to create/modify/append/prepend/overwrite
Contents == {"x"}

\* content of every regular file that is on disk before the first transaction
OrigContent == "o"

\* transformer callbacks handed to transformFile
Transformers == {"tag"}

ApplyTransformer(fn, s) == "t" \o s

\* ------------------------------------------------------- the real filesystem
NoEntry == [kind |-> "none", content |-> ""]
DirEntry == [kind |-> "dir", content |-> ""]
FileEntry(c) == [kind |-> "file", content |-> c]

\* is the directory with key k present on disk d
DirOnDisk(d, k) == k = RootKey \/ d[k].kind = "dir"

\* fs.promises.stat(p) succeeds and stats.isFile()
StatIsFile(d, p) == d[p].kind = "file"

\* fs.existsSync(p): true for regular files and for directories
ExistsSync(d, p) == d[p].kind # "none"

\* fs.promises.mkdir(k, {recursive: true}): fails when k is a regular file
MkdirOk(d, k) == k = RootKey \/ d[k].kind # "file"
MkdirDisk(d, k) == IF k = RootKey THEN d ELSE [d EXCEPT ![k] = DirEntry]

\* fs.promises.writeFile(p, c): needs the parent directory, and p not a directory
WriteOk(d, p) == DirOnDisk(d, Dirname(p)) /\ d[p].kind # "dir"
WriteDisk(d, p, c) == [d EXCEPT ![p] = FileEntry(c)]

\* fs.promises.unlink(p): removes a regular file, fails on anything else
UnlinkOk(d, p) == d[p].kind = "file"
UnlinkDisk(d, p) == [d EXCEPT ![p] = NoEntry]

\* the disks a project root can hold: "d" is a directory or absent, and a
\* nested file needs its directory
DiskStates ==
  { d \in [FsKeys -> {NoEntry, DirEntry, FileEntry(OrigContent)}] :
      /\ d["d"].kind # "file"
      /\ d["d/f"].kind # "dir"
      /\ (d["d/f"].kind = "file" => d["d"].kind = "dir") }

\* the sets of keys on which the environment can make the mutating calls of
\* one commit() or rollback() fail (permission denied, disk full)
FaultSets == { F \in SUBSET FsKeys : Cardinality(F) <= MaxFaults }

\* ------------------------------------------------- Map<string, ...> helpers
\* A JavaScript Map iterates in insertion order and set() on a present key
\* keeps the key's position: latestContent is a sequence of entries.
MapHas(m, p) == \E i \in 1..Len(m) : m[i].path = p
MapGet(m, p) == m[CHOOSE i \in 1..Len(m) : m[i].path = p]
MapSet(m, e) ==
  IF MapHas(m, e.path)
  THEN [i \in 1..Len(m) |-> IF m[i].path = e.path THEN e ELSE m[i]]
  ELSE Append(m, e)
MapKeys(m) == { m[i].path : i \in 1..Len(m) }

\* originalStates: the iteration order is never observable (restore acts on
\* disjoint paths), so the Map is a function with a captured flag per key
NotCaptured == [captured |-> FALSE, existed |-> FALSE, content |-> ""]
EmptyOriginalStates == [p \in Paths |-> NotCaptured]

\* ------------------------------------------------------------ VirtualFileTree
\* the state readFile/_updateLatestContent see for a key that is not cached
DiskState(d, p) ==
  IF StatIsFile(d, p) THEN [path |-> p, content |-> d[p].content, exists |-> TRUE]
  ELSE [path |-> p, content |-> "", exists |-> FALSE]

\* fileExists(path)
FileExists(lc, d, p) ==
  IF MapHas(lc, p) THEN MapGet(lc, p).exists ELSE ExistsSync(d, p)

\* readFile(path): does the call return (TRUE) or throw 'does not exist'
ReadFileOk(lc, d, p) ==
  IF MapHas(lc, p) THEN MapGet(lc, p).exists ELSE StatIsFile(d, p)

\* a readFile that goes to the disk whenever the path is a file there
ReadFileContentFromDisk(lc, d, p) ==
  IF StatIsFile(d, p) THEN d[p].content ELSE MapGet(lc, p).content

\* readFile(path): the content returned when the call does not throw
ReadFileContent(lc, d, p) ==
  IF MapHas(lc, p) THEN MapGet(lc, p).content ELSE d[p].content

\* readFile(path): the cache after the call (a file read from disk is cached)
ReadFileCache(lc, d, p) ==
  IF ~MapHas(lc, p) /\ StatIsFile(d, p) THEN Append(lc, DiskState(d, p)) ELSE lc

\* _captureOriginalState(relativePath, absolutePath)
CaptureOriginalState(d, p) ==
  IF StatIsFile(d, p)
  THEN [captured |-> TRUE, existed |-> TRUE, content |-> d[p].content]
  ELSE [captured |-> TRUE, existed |-> FALSE, content |-> ""]

\* _updateLatestContent(relativePath, type, content)
UpdateLatestContent(lc, d, p, type, content) ==
  LET currentState == IF MapHas(lc, p) THEN MapGet(lc, p) ELSE DiskState(d, p)
      newState ==
        CASE type = "create"  -> [path |-> p, content |-> content, exists |-> TRUE]
          [] type = "modify"  -> [path |-> p, content |-> content,
                                  exists |-> currentState.exists]
          [] type = "append"  -> [path |-> p, content |-> currentState.content \o content,
                                  exists |-> currentState.exists]
          [] type = "prepend" -> [path |-> p, content |-> content \o currentState.content,
                                  exists |-> currentState.exists]
          [] type = "delete"  -> [path |-> p, content |-> "", exists |-> FALSE]
  IN MapSet(lc, newState)

\* the hasDeleteOperation test of _addOperation
HasDeleteOperation(q, p) ==
  \E i \in 1..Len(q) : q[i].path = p /\ q[i].type = "delete"

\* the message of the error _addOperation throws; it names the type and the path
ErrorMessage(err, type, p) ==
  CASE err = "CreateConflict" -> <<"Cannot create file", p, "file already exists">>
    [] err = "MissingFile"    -> <<"Cannot", type, "file", p, "file does not exist">>
    [] OTHER                  -> <<>>

\* an _addOperation that rejects every create of a path that exists or
\* existed, whatever the queue holds
AddOperationNoRecreate(t, d, p, type, content) ==
  LET os1 == IF t.originalStates[p].captured THEN t.originalStates
             ELSE [t.originalStates EXCEPT ![p] = CaptureOriginalState(d, p)]
      currentExists == FileExists(t.latestContent, d, p)
      t1 == [t EXCEPT !.originalStates = os1]
      err == IF type = "create" /\ (os1[p].existed \/ currentExists)
             THEN "CreateConflict"
             ELSE IF type \in {"modify", "delete", "append", "prepend"} /\ ~currentExists
             THEN "MissingFile"
             ELSE "none"
  IN [err |-> err,
      msg |-> ErrorMessage(err, type, p),
      t |-> IF err # "none" THEN t1
            ELSE [t1 EXCEPT
                    !.latestContent = UpdateLatestContent(t.latestContent, d, p, type, content),
                    !.operationQueue = Append(t.operationQueue,
                                         [id |-> t.operationCounter + 1, path |-> p,
                                          type |-> type, content |-> content]),
                    !.operationCounter = t.operationCounter + 1]]

\* an _addOperation that validates modify, delete, append and prepend against
\* the captured original state in place of the projection
AddOperationOriginalExists(t, d, p, type, content) ==
  LET os1 == IF t.originalStates[p].captured THEN t.originalStates
             ELSE [t.originalStates EXCEPT ![p] = CaptureOriginalState(d, p)]
      currentExists == FileExists(t.latestContent, d, p)
      t1 == [t EXCEPT !.originalStates = os1]
      err == IF /\ type = "create"
                /\ (os1[p].existed \/ currentExists)
                /\ ~HasDeleteOperation(t.operationQueue, p)
             THEN "CreateConflict"
             ELSE IF type \in {"modify", "delete", "append", "prepend"} /\ ~os1[p].existed
             THEN "MissingFile"
             ELSE "none"
  IN [err |-> err,
      msg |-> ErrorMessage(err, type, p),
      t |-> IF err # "none" THEN t1
            ELSE [t1 EXCEPT
                    !.latestContent = UpdateLatestContent(t.latestContent, d, p, type, content),
                    !.operationQueue = Append(t.operationQueue,
                                         [id |-> t.operationCounter + 1, path |-> p,
                                          type |-> type, content |-> content]),
                    !.operationCounter = t.operationCounter + 1]]

\* an _addOperation that updates the cache before it validates
AddOperationEagerCache(t, d, p, type, content) ==
  LET os1 == IF t.originalStates[p].captured THEN t.originalStates
             ELSE [t.originalStates EXCEPT ![p] = CaptureOriginalState(d, p)]
      currentExists == FileExists(t.latestContent, d, p)
      t1 == [t EXCEPT !.originalStates = os1,
                      !.latestContent = UpdateLatestContent(t.latestContent, d, p, type, content)]
      err == IF /\ type = "create"
                /\ (os1[p].existed \/ currentExists)
                /\ ~HasDeleteOperation(t.operationQueue, p)
             THEN "CreateConflict"
             ELSE IF type \in {"modify", "delete", "append", "prepend"} /\ ~currentExists
             THEN "MissingFile"
             ELSE "none"
  IN [err |-> err,
      msg |-> ErrorMessage(err, type, p),
      t |-> IF err # "none" THEN t1
            ELSE [t1 EXCEPT
                    !.operationQueue = Append(t.operationQueue,
                                         [id |-> t.operationCounter + 1, path |-> p,
                                          type |-> type, content |-> content]),
                    !.operationCounter = t.operationCounter + 1]]

\* an _addOperation that keeps one queued operation per path: the new
\* operation replaces the ones already queued for its path
AddOperationCoalesce(t, d, p, type, content) ==
  LET os1 == IF t.originalStates[p].captured THEN t.originalStates
             ELSE [t.originalStates EXCEPT ![p] = CaptureOriginalState(d, p)]
      currentExists == FileExists(t.latestContent, d, p)
      t1 == [t EXCEPT !.originalStates = os1]
      err == IF /\ type = "create"
                /\ (os1[p].existed \/ currentExists)
                /\ ~HasDeleteOperation(t.operationQueue, p)
             THEN "CreateConflict"
             ELSE IF type \in {"modify", "delete", "append", "prepend"} /\ ~currentExists
             THEN "MissingFile"
             ELSE "none"
  IN [err |-> err,
      msg |-> ErrorMessage(err, type, p),
      t |-> IF err # "none" THEN t1
            ELSE [t1 EXCEPT
                    !.latestContent = UpdateLatestContent(t.latestContent, d, p, type, content),
                    !.operationQueue =
                       Append(SelectSeq(t.operationQueue, LAMBDA o : o.path # p),
                              [id |-> t.operationCounter + 1, path |-> p,
                               type |-> type, content |-> content]),
                    !.operationCounter = t.operationCounter + 1]]

\* _addOperation(path, type, content) as a function of the tree t and the
\* disk d: the error thrown ("none" when the call returns) and the tree after.
\* The content of a delete is undefined in the code and read as '' everywhere;
\* the id `op_${n}` is modelled by its number n.
AddOperation(t, d, p, type, content) ==
  LET os1 == IF t.originalStates[p].captured THEN t.originalStates
             ELSE [t.originalStates EXCEPT ![p] = CaptureOriginalState(d, p)]
      currentExists == FileExists(t.latestContent, d, p)
      t1 == [t EXCEPT !.originalStates = os1]
      err == IF /\ type = "create"
                /\ (os1[p].existed \/ currentExists)
                /\ ~HasDeleteOperation(t.operationQueue, p)
             THEN "CreateConflict"
             ELSE IF type \in {"modify", "delete", "append", "prepend"} /\ ~currentExists
             THEN "MissingFile"
             ELSE "none"
  IN [err |-> err,
      msg |-> ErrorMessage(err, type, p),
      t |-> IF err # "none" THEN t1
            ELSE [t1 EXCEPT
                    !.latestContent = UpdateLatestContent(t.latestContent, d, p, type, content),
                    !.operationQueue = Append(t.operationQueue,
                                         [id |-> t.operationCounter + 1, path |-> p,
                                          type |-> type, content |-> content]),
                    !.operationCounter = t.operationCounter + 1]]

\* overwriteFile(path, content): modify if fileExists(path), else create
OverwriteFile(t, d, p, content) ==
  AddOperation(t, d, p, IF FileExists(t.latestContent, d, p) THEN "modify" ELSE "create",
               content)

\* a transformFile that hands the transformer the content on disk, not the
\* projected content
TransformFileFromDisk(t, d, p, fn) ==
  LET currentContent == IF StatIsFile(d, p) THEN d[p].content ELSE ""
      t1 == [t EXCEPT !.latestContent = ReadFileCache(t.latestContent, d, p)]
  IN AddOperation(t1, d, p, "modify", ApplyTransformer(fn, currentContent))

\* transformFile(path, transformer): readFile(path).catch(() => ''), then a
\* modify with the transformer's result
TransformFile(t, d, p, fn) ==
  LET currentContent == IF ReadFileOk(t.latestContent, d, p)
                        THEN ReadFileContent(t.latestContent, d, p) ELSE ""
      t1 == [t EXCEPT !.latestContent = ReadFileCache(t.latestContent, d, p)]
  IN AddOperation(t1, d, p, "modify", ApplyTransformer(fn, currentContent))

\* preview(): a copy of the queue, in queue order
Preview(t) == t.operationQueue

\* get pendingOperations()
PendingOperations(t) == Len(t.operationQueue)

\* get hasPendingChanges()
HasPendingChanges(t) == Len(t.operationQueue) > 0 /\ ~t.isCommitted

\* getTrackedFiles(): the keys of originalStates (as a set: the model does not
\* keep the order in which they were captured)
GetTrackedFiles(t) == { p \in Paths : t.originalStates[p].captured }

\* the keys callers pass, in the order Array.prototype.sort() gives
SortedPaths == <<"a", "d/f">>

\* getChangedFiles(): the paths of the queued operations, each once, sorted
GetChangedFiles(t) ==
  SelectSeq(SortedPaths, LAMBDA p : \E i \in 1..Len(t.operationQueue) : t.operationQueue[i].path = p)

\* resolve(rootDir, path): the absolute path of a key under rootDir; the empty
\* key resolves to rootDir itself
RootDir == "/root"
Resolve(p) == IF p = RootKey THEN RootDir ELSE RootDir \o "/" \o p

\* Buffer.from(content, 'utf-8'): a byte buffer, not a string; the encoding is
\* injective, so the bytes are represented by the text they encode
BufferFrom(s) == [encoding |-> "utf-8", bytes |-> s]

\* toFsUpdates() without the filter on state.exists
ToFsUpdatesUnfiltered(t) ==
  [i \in 1..Len(t.latestContent) |->
     [path |-> Resolve(t.latestContent[i].path),
      content |-> BufferFrom(t.latestContent[i].content),
      type |-> "modify"]]

\* toFsUpdates(): the entries of latestContent with exists=true, in Map order,
\* each as {absolute path, content buffer, type 'modify'}
ToFsUpdates(t) ==
  LET kept == SelectSeq(t.latestContent, LAMBDA e : e.exists)
  IN [i \in 1..Len(kept) |->
        [path |-> Resolve(kept[i].path),
         content |-> BufferFrom(kept[i].content),
         type |-> "modify"]]

\* the directories commit() creates: dirname of every queued path, each once,
\* in the order of first appearance in the queue
Directories(q) ==
  LET first == { i \in 1..Len(q) :
                   \A j \in 1..(i - 1) : Dirname(q[j].path) # Dirname(q[i].path) }
      RECURSIVE build(_)
      build(i) == IF i > Len(q) THEN <<>>
                  ELSE IF i \in first THEN <<Dirname(q[i].path)>> \o build(i + 1)
                  ELSE build(i + 1)
  IN build(1)

\* the mkdir loop of commit(), from directory i on; F is the set of keys on
\* which the environment makes a mutating call fail (permissions, disk full)
RECURSIVE CommitMkdirs(_, _, _, _)
CommitMkdirs(d, dirs, i, F) ==
  IF i > Len(dirs) THEN [ok |-> TRUE, disk |-> d]
  ELSE IF dirs[i] \in F \/ ~MkdirOk(d, dirs[i]) THEN [ok |-> FALSE, disk |-> d]
  ELSE CommitMkdirs(MkdirDisk(d, dirs[i]), dirs, i + 1, F)

\* the write/unlink loop of commit() over latestContent, from entry i on:
\* a failing writeFile aborts the loop, a failing unlink is swallowed
RECURSIVE CommitFiles(_, _, _, _)
CommitFiles(d, lc, i, F) ==
  IF i > Len(lc) THEN [ok |-> TRUE, disk |-> d]
  ELSE IF lc[i].exists
  THEN IF lc[i].path \in F \/ ~WriteOk(d, lc[i].path) THEN [ok |-> FALSE, disk |-> d]
       ELSE CommitFiles(WriteDisk(d, lc[i].path, lc[i].content), lc, i + 1, F)
  ELSE IF lc[i].path \notin F /\ UnlinkOk(d, lc[i].path)
       THEN CommitFiles(UnlinkDisk(d, lc[i].path), lc, i + 1, F)
       ELSE CommitFiles(d, lc, i + 1, F)

\* commit(): the error thrown, the tree and the disk after the call
Commit(t, d, F) ==
  IF t.isCommitted THEN [err |-> "AlreadyCommitted", t |-> t, disk |-> d]
  ELSE LET m == CommitMkdirs(d, Directories(t.operationQueue), 1, F)
           w == CommitFiles(m.disk, t.latestContent, 1, F)
       IN IF ~m.ok THEN [err |-> "CommitFailed", t |-> t, disk |-> m.disk]
          ELSE IF ~w.ok THEN [err |-> "CommitFailed", t |-> t, disk |-> w.disk]
          ELSE [err |-> "none", t |-> [t EXCEPT !.isCommitted = TRUE], disk |-> w.disk]

\* the state of a freshly constructed or initialized tree
FreshTree ==
  [operationQueue |-> <<>>, originalStates |-> EmptyOriginalStates,
   latestContent |-> <<>>, isCommitted |-> FALSE, operationCounter |-> 0]

\* does the write that _restoreOriginalState starts for key p reject
RestoreRejects(d, os, p, F) ==
  os[p].captured /\ os[p].existed /\ (p \in F \/ ~WriteOk(d, p))

\* _restoreOriginalState(): every captured key is rewritten or unlinked; the
\* calls act on disjoint keys and are all started before any is awaited
RestoreDisk(d, os, F) ==
  [p \in FsKeys |->
     IF p \notin Paths \/ ~os[p].captured THEN d[p]
     ELSE IF os[p].existed
          THEN IF p \in F \/ ~WriteOk(d, p) THEN d[p] ELSE FileEntry(os[p].content)
          ELSE IF p \notin F /\ UnlinkOk(d, p) THEN NoEntry ELSE d[p]]

\* a rollback() that restores the original states whether committed or not
RollbackAlwaysRestores(t, d, F) ==
  IF \E p \in Paths : RestoreRejects(d, t.originalStates, p, F)
  THEN [err |-> "RestoreFailed", t |-> t, disk |-> RestoreDisk(d, t.originalStates, F)]
  ELSE [err |-> "none", t |-> FreshTree, disk |-> RestoreDisk(d, t.originalStates, F)]

\* a rollback() whose pre-commit branch clears the queue and keeps the cache
RollbackKeepsProjection(t, d, F) ==
  IF t.isCommitted
  THEN IF \E p \in Paths : RestoreRejects(d, t.originalStates, p, F)
       THEN [err |-> "RestoreFailed", t |-> t, disk |-> RestoreDisk(d, t.originalStates, F)]
       ELSE [err |-> "none", t |-> FreshTree, disk |-> RestoreDisk(d, t.originalStates, F)]
  ELSE [err |-> "none", t |-> [t EXCEPT !.operationQueue = <<>>], disk |-> d]

\* a rollback() whose pre-commit branch clears the projection and leaves the
\* queue
RollbackKeepsQueue(t, d, F) ==
  IF t.isCommitted
  THEN IF \E p \in Paths : RestoreRejects(d, t.originalStates, p, F)
       THEN [err |-> "RestoreFailed", t |-> t, disk |-> RestoreDisk(d, t.originalStates, F)]
       ELSE [err |-> "none", t |-> FreshTree, disk |-> RestoreDisk(d, t.originalStates, F)]
  ELSE [err |-> "none", t |-> [t EXCEPT !.latestContent = <<>>], disk |-> d]

\* a rollback() whose post-commit branch does not reset the operation counter
RollbackKeepsCounter(t, d, F) ==
  IF t.isCommitted
  THEN IF \E p \in Paths : RestoreRejects(d, t.originalStates, p, F)
       THEN [err |-> "RestoreFailed", t |-> t, disk |-> RestoreDisk(d, t.originalStates, F)]
       ELSE [err |-> "none",
             t |-> [FreshTree EXCEPT !.operationCounter = t.operationCounter],
             disk |-> RestoreDisk(d, t.originalStates, F)]
  ELSE [err |-> "none",
        t |-> [t EXCEPT !.operationQueue = <<>>, !.latestContent = <<>>],
        disk |-> d]

\* rollback(): the error thrown, the tree and the disk after the call
Rollback(t, d, F) ==
  IF t.isCommitted
  THEN IF \E p \in Paths : RestoreRejects(d, t.originalStates, p, F)
       THEN [err |-> "RestoreFailed", t |-> t, disk |-> RestoreDisk(d, t.originalStates, F)]
       ELSE [err |-> "none", t |-> FreshTree, disk |-> RestoreDisk(d, t.originalStates, F)]
  ELSE [err |-> "none",
        t |-> [t EXCEPT !.operationQueue = <<>>, !.latestContent = <<>>],
        disk |-> d]

\* new VirtualFileTreeCheckpoint(vft): the saved copies
Snapshot(t) ==
  [savedOperations |-> t.operationQueue, savedOriginalStates |-> t.originalStates,
   savedLatestContent |-> t.latestContent, savedCounter |-> t.operationCounter]

\* a restore() that leaves the live original-state store as it is
RestoreKeepsOriginalStates(t, cp) ==
  [operationQueue |-> cp.savedOperations, originalStates |-> t.originalStates,
   latestContent |-> cp.savedLatestContent, isCommitted |-> FALSE,
   operationCounter |-> cp.savedCounter]

\* VirtualFileTreeCheckpoint.restore()
Restore(t, cp) ==
  [operationQueue |-> cp.savedOperations, originalStates |-> cp.savedOriginalStates,
   latestContent |-> cp.savedLatestContent, isCommitted |-> FALSE,
   operationCounter |-> cp.savedCounter]

\* --------------------------------------------------------------- the state
\* the install command has made no choice yet: which branch of
\* runInstallInteractive the plugin name takes, whether loadPlugin finds a
\* GitHub URL, the answers to the two warnings, and whether the package was
\* installed and the plugin source fetched
NoFlow ==
  [name |-> "none", path |-> "none", proceed |-> FALSE, confirmed |-> FALSE,
   installed |-> FALSE, fetched |-> FALSE]

\* number of staging calls the caller starts without awaiting the previous one
MaxInFlight == 2

\* the slots of the calls the caller has started
Calls == 1..MaxInFlight

\* a slot in which no call was started yet
\* (overlaps is history: the call was started while an earlier one was in flight)
NoCall ==
  [at |-> "idle", path |-> "none", type |-> "none", content |-> "", result |-> "none",
   overlaps |-> FALSE]
NoCalls == [i \in Calls |-> NoCall]

VARIABLES
  disk,              \* the real filesystem under rootDir
  operationQueue,    \* VirtualFileTree.operationQueue
  originalStates,    \* VirtualFileTree.originalStates
  latestContent,     \* VirtualFileTree.latestContent
  isCommitted,       \* VirtualFileTree.isCommitted
  operationCounter,  \* VirtualFileTree.operationCounter
  checkpoints,       \* the VirtualFileTreeCheckpoint objects the caller holds
  baseline,          \* history: the disk when the transaction began
  commitCalled,      \* history: commit() was called since the transaction began
  committedOnce,     \* history: a commit() succeeded since the transaction began
  calls,             \* history: number of counted calls made so far
  pc,                \* position of runPlugin ("idle": no runPlugin call is running)
  runCommits,        \* history: commit() calls runPlugin itself has made
  pluginCommits,     \* history: ctx.commit() calls the plugin function has made
  flow,              \* history: the choices made so far in the install command
  operations,        \* the operations Map of a map-based VirtualFileTree
  imported,          \* the operations Map of a second, importing map-based tree
  inflight           \* the staging calls that were started and have not returned

\* the variables of the runPlugin, executePlugin and install drivers, and of
\* the map-based trees
driver == <<pc, runCommits, pluginCommits, flow, operations, imported, inflight>>

vars == <<disk, operationQueue, originalStates, latestContent, isCommitted,
          operationCounter, checkpoints, baseline, commitCalled, committedOnce,
          calls, pc, runCommits, pluginCommits, flow, operations, imported, inflight>>

Tree ==
  [operationQueue |-> operationQueue, originalStates |-> originalStates,
   latestContent |-> latestContent, isCommitted |-> isCommitted,
   operationCounter |-> operationCounter]

SetTree(t) ==
  /\ operationQueue' = t.operationQueue
  /\ originalStates' = t.originalStates
  /\ latestContent' = t.latestContent
  /\ isCommitted' = t.isCommitted
  /\ operationCounter' = t.operationCounter

\* the model stops at MaxOps counted calls and at MaxLen characters of content
WithinBounds(r) ==
  /\ r.t # Tree => calls < MaxOps
  /\ \A i \in 1..Len(r.t.latestContent) : Len(r.t.latestContent[i].content) <= MaxLen

Init ==
  /\ disk \in DiskStates
  /\ baseline = disk
  /\ operationQueue = <<>>
  /\ originalStates = EmptyOriginalStates
  /\ latestContent = <<>>
  /\ isCommitted = FALSE
  /\ operationCounter = 0
  /\ checkpoints = <<>>
  /\ commitCalled = FALSE
  /\ committedOnce = FALSE
  /\ calls = 0
  /\ pc = "idle"
  /\ runCommits = 0
  /\ pluginCommits = 0
  /\ flow = NoFlow
  /\ operations = <<>>
  /\ imported = <<>>
  /\ inflight = NoCalls

\* ------------------------------------------------------------- the actions
\* fileExists(), preview() and the getters change nothing and are the
\* operators FileExists, Preview, PendingOperations and HasPendingChanges.

\* a staging call that writes its projection through to the disk
StagingCallWriteThrough(r) ==
  /\ WithinBounds(r)
  /\ SetTree(r.t)
  /\ calls' = IF r.t # Tree THEN calls + 1 ELSE calls
  /\ disk' = CommitFiles(disk, r.t.latestContent, 1, {}).disk
  /\ UNCHANGED <<driver, checkpoints, baseline, commitCalled, committedOnce>>

\* the effect of a staging call whose outcome is r
StagingCall(r) ==
  /\ WithinBounds(r)
  /\ SetTree(r.t)
  /\ calls' = IF r.t # Tree THEN calls + 1 ELSE calls
  /\ UNCHANGED <<driver, disk, checkpoints, baseline, commitCalled, committedOnce>>

createFile(p, c) ==
  /\ p \in Paths
  /\ StagingCall(AddOperation(Tree, disk, p, "create", c))

modifyFile(p, c) ==
  /\ p \in Paths
  /\ StagingCall(AddOperation(Tree, disk, p, "modify", c))

appendToFile(p, c) ==
  /\ p \in Paths
  /\ StagingCall(AddOperation(Tree, disk, p, "append", c))

prependToFile(p, c) ==
  /\ p \in Paths
  /\ StagingCall(AddOperation(Tree, disk, p, "prepend", c))

deleteFile(p) ==
  /\ p \in Paths
  /\ StagingCall(AddOperation(Tree, disk, p, "delete", ""))

overwriteFile(p, c) ==
  /\ p \in Paths
  /\ StagingCall(OverwriteFile(Tree, disk, p, c))

transformFile(p, fn) ==
  /\ p \in Paths
  /\ StagingCall(TransformFile(Tree, disk, p, fn))

\* readFile(path); a read that is answered from the cache changes nothing
readFile(p) ==
  LET lc1 == ReadFileCache(latestContent, disk, p)
  IN /\ lc1 # latestContent => calls < MaxOps
     /\ latestContent' = lc1
     /\ calls' = IF lc1 # latestContent THEN calls + 1 ELSE calls
     /\ UNCHANGED <<driver, disk, operationQueue, originalStates, isCommitted, operationCounter,
                    checkpoints, baseline, commitCalled, committedOnce>>

initialize ==
  /\ SetTree(FreshTree)
  /\ baseline' = disk
  /\ commitCalled' = FALSE
  /\ committedOnce' = FALSE
  /\ UNCHANGED <<driver, disk, checkpoints, calls>>

\* commit() while the environment fails the mutating calls on the keys in F
commitWith(F) ==
  LET r == Commit(Tree, disk, F)
  IN /\ SetTree(r.t)
     /\ disk' = r.disk
     /\ commitCalled' = TRUE
     /\ committedOnce' = (committedOnce \/ r.err = "none")
     /\ UNCHANGED <<driver, checkpoints, baseline, calls>>

commit == \E F \in FaultSets : commitWith(F)

\* rollback() while the environment fails the mutating calls on the keys in F;
\* a completed post-commit rollback ends the transaction
rollbackWith(F) ==
  LET r == Rollback(Tree, disk, F)
      reset == isCommitted /\ r.err = "none"
  IN /\ SetTree(r.t)
     /\ disk' = r.disk
     /\ baseline' = IF reset THEN r.disk ELSE baseline
     /\ commitCalled' = IF reset THEN FALSE ELSE commitCalled
     /\ committedOnce' = IF reset THEN FALSE ELSE committedOnce
     /\ UNCHANGED <<driver, checkpoints, calls>>

rollback == \E F \in FaultSets : rollbackWith(F)

\* the caller creates at most MaxCheckpoints checkpoint objects and keeps them
createCheckpoint ==
  /\ Len(checkpoints) < MaxCheckpoints
  /\ calls < MaxOps
  /\ checkpoints' = Append(checkpoints, Snapshot(Tree))
  /\ calls' = calls + 1
  /\ UNCHANGED <<driver, disk, operationQueue, originalStates, latestContent, isCommitted,
                 operationCounter, baseline, commitCalled, committedOnce>>

restore(i) ==
  /\ i \in 1..Len(checkpoints)
  /\ SetTree(Restore(Tree, checkpoints[i]))
  /\ UNCHANGED <<driver, disk, checkpoints, baseline, commitCalled, committedOnce, calls>>

\* the calls that never touch the disk
Staging ==
  \/ \E p \in Paths, c \in Contents : createFile(p, c)
  \/ \E p \in Paths, c \in Contents : modifyFile(p, c)
  \/ \E p \in Paths, c \in Contents : appendToFile(p, c)
  \/ \E p \in Paths, c \in Contents : prependToFile(p, c)
  \/ \E p \in Paths : deleteFile(p)
  \/ \E p \in Paths, c \in Contents : overwriteFile(p, c)
  \/ \E p \in Paths, fn \in Transformers : transformFile(p, fn)
  \/ \E p \in Paths : readFile(p)
  \/ initialize
  \/ createCheckpoint
  \/ \E i \in 1..MaxCheckpoints : restore(i)

Next == Staging \/ commit \/ rollback

\* every call in any order, on a filesystem that can fail the mutating calls
Spec == Init /\ [][Next]_vars

NextReliable == Staging \/ commitWith({}) \/ rollbackWith({})

\* every call in any order, on a filesystem whose calls fail only for what is
\* on disk (a directory in the way, a missing file)
SpecReliable == Init /\ [][NextReliable]_vars

\* ------------------------------------------------------------------ claims
\* the view of a disk entry that file contents and existence are about
FileView(e) == IF e.kind = "file" THEN [exists |-> TRUE, content |-> e.content]
               ELSE [exists |-> FALSE, content |-> ""]

\* the entry of key p in the projection lc, without its key
Projected(lc, p) == [exists |-> MapGet(lc, p).exists, content |-> MapGet(lc, p).content]

QueuedPaths(q) == { q[i].path : i \in 1..Len(q) }

\* C1: before the first commit() call of a transaction, no call (staging,
\* readFile, createCheckpoint, restore, rollback), in any order and any
\* number of times, changes the content or existence of anything on disk.
C1_NoDiskChangeBeforeCommit ==
  [][(~commitCalled /\ ~commitCalled') => disk' = disk]_vars

\* C1 witness: two operations staged and a checkpoint taken, no commit yet
C1_Witness ==
  ~commitCalled /\ Len(operationQueue) = 2 /\ Len(checkpoints) = 1

\* one queued operation applied to the state st of its path, as the data
\* model defines the fold
FoldStep(st, op) ==
  CASE op.type = "create"  -> [exists |-> TRUE, content |-> op.content]
    [] op.type = "modify"  -> [exists |-> st.exists, content |-> op.content]
    [] op.type = "append"  -> [exists |-> st.exists, content |-> st.content \o op.content]
    [] op.type = "prepend" -> [exists |-> st.exists, content |-> op.content \o st.content]
    [] op.type = "delete"  -> [exists |-> FALSE, content |-> ""]

\* the left fold of the operations q[i..] queued for p over the state st
RECURSIVE FoldQueue(_, _, _, _)
FoldQueue(q, i, p, st) ==
  IF i > Len(q) THEN st
  ELSE FoldQueue(q, i + 1, p, IF q[i].path = p THEN FoldStep(st, q[i]) ELSE st)

\* C2: queue fidelity: for every path with a queued operation the projection
\* entry equals the left fold, in queue order, of the operations queued for
\* that path applied to the path's pre-transaction disk state.
C2_QueueFidelity ==
  \A p \in QueuedPaths(operationQueue) :
    /\ MapHas(latestContent, p)
    /\ Projected(latestContent, p) = FoldQueue(operationQueue, 1, p, FileView(baseline[p]))

\* every entry of the projection lc is materialized on the disk d
Materialized(lc, d) ==
  \A i \in 1..Len(lc) :
    IF lc[i].exists THEN d[lc[i].path] = FileEntry(lc[i].content)
    ELSE d[lc[i].path].kind # "file"

\* C3: after a successful commit() every projected path with exists=true is
\* a file on disk with exactly the projected content, and every projected
\* path with exists=false is no file on disk.
C3_CommitMaterializesProjection ==
  [][(~isCommitted /\ isCommitted') => Materialized(latestContent', disk')]_vars

\* C4: a rollback() of a committed transaction that returns leaves every path
\* with exactly the content and existence it had when the transaction began:
\* touched paths are restored, untouched paths are as they were.
C4_RollbackRestoresExactly ==
  [][(isCommitted /\ Rollback(Tree, disk, {}).err = "none" /\ rollbackWith({}))
       => \A k \in FsKeys : FileView(disk'[k]) = FileView(baseline[k])]_vars

\* C5: rollback() on a transaction that is not committed empties the queue
\* and the projection (pendingOperations 0, hasPendingChanges false), writes
\* and deletes nothing on disk, and afterwards readFile and fileExists of
\* every path report the real filesystem again.
C5_PreCommitRollbackDiscards ==
  [][(~isCommitted /\ rollback) =>
       /\ operationQueue' = <<>>
       /\ latestContent' = <<>>
       /\ Len(operationQueue') = 0
       /\ ~(Len(operationQueue') > 0 /\ ~isCommitted')
       /\ disk' = disk
       /\ \A p \in Paths :
            /\ FileExists(latestContent', disk', p) = ExistsSync(disk', p)
            /\ ReadFileOk(latestContent', disk', p) = StatIsFile(disk', p)
            /\ StatIsFile(disk', p) =>
                 ReadFileContent(latestContent', disk', p) = disk'[p].content]_vars

\* C5 witness: staged operations were discarded by a rollback before any
\* commit (the counter keeps counting, the queue and the projection are empty)
C5_Witness ==
  /\ ~isCommitted /\ ~commitCalled
  /\ operationQueue = <<>> /\ latestContent = <<>>
  /\ operationCounter = 2
  /\ \E p \in Paths : originalStates[p].captured /\ originalStates[p].existed

\* C6: commit() succeeds at most once per transaction: once a commit() has
\* succeeded, every later commit() call of the same transaction fails with
\* the already-committed error and leaves the disk as it is.
C6_CommitAtMostOnce ==
  committedOnce =>
    \A F \in FaultSets :
      /\ Commit(Tree, disk, F).err = "AlreadyCommitted"
      /\ Commit(Tree, disk, F).disk = disk

\* C7: for any path p that exists in the projection, deleteFile(p) and then
\* createFile(p, c) both succeed, the queue gains a delete followed by a
\* create for p, and afterwards fileExists(p) is true and readFile(p) is c.
C7_DeleteThenCreate ==
  \A p \in Paths, c \in Contents :
    FileExists(latestContent, disk, p) =>
      LET r1 == AddOperation(Tree, disk, p, "delete", "")
          r2 == AddOperation(r1.t, disk, p, "create", c)
          n == Len(operationQueue)
          q2 == r2.t.operationQueue
      IN /\ r1.err = "none"
         /\ r2.err = "none"
         /\ Len(r1.t.operationQueue) = n + 1
         /\ Len(q2) = n + 2
         /\ SubSeq(q2, 1, n) = operationQueue
         /\ q2[n + 1].path = p /\ q2[n + 1].type = "delete"
         /\ q2[n + 2].path = p /\ q2[n + 2].type = "create" /\ q2[n + 2].content = c
         /\ FileExists(r2.t.latestContent, disk, p)
         /\ ReadFileOk(r2.t.latestContent, disk, p)
         /\ ReadFileContent(r2.t.latestContent, disk, p) = c

\* C7 witness: a file of the disk was modified, deleted and created again in
\* one transaction and reads as the created content
C7_Witness ==
  \E p \in Paths :
    /\ baseline[p].kind = "file"
    /\ Len(operationQueue) = 3
    /\ operationQueue[1].path = p /\ operationQueue[1].type = "modify"
    /\ operationQueue[2].path = p /\ operationQueue[2].type = "delete"
    /\ operationQueue[3].path = p /\ operationQueue[3].type = "create"
    /\ FileExists(latestContent, disk, p)
    /\ ReadFileContent(latestContent, disk, p) = operationQueue[3].content

\* C8: createFile(p, c) fails with the create-conflict error whenever p
\* exists in the projection (the most recent queued operation for such a p
\* is never a delete); so create, delete, create, create on one path fails at
\* the last create.
C8_CreateConflict ==
  \A p \in Paths, c \in Contents :
    FileExists(latestContent, disk, p) =>
      AddOperation(Tree, disk, p, "create", c).err = "CreateConflict"

StagingOutcomes ==
  { AddOperation(Tree, disk, p, type, c) :
      p \in Paths, type \in {"create", "modify", "append", "prepend"}, c \in Contents }
  \cup { AddOperation(Tree, disk, p, "delete", "") : p \in Paths }
  \cup { OverwriteFile(Tree, disk, p, c) : p \in Paths, c \in Contents }
  \cup { TransformFile(Tree, disk, p, fn) : p \in Paths, fn \in Transformers }

\* C10: a staging call that fails validation appends nothing: the queue, the
\* projection of every path, the operation counter and the committed flag
\* are the same after the failed call as before it.
C10_FailedCallAppendsNothing ==
  \A r \in StagingOutcomes :
    r.err # "none" =>
      /\ Preview(r.t) = operationQueue
      /\ r.t.latestContent = latestContent
      /\ \A p \in Paths :
           /\ FileExists(r.t.latestContent, disk, p) = FileExists(latestContent, disk, p)
           /\ ReadFileOk(r.t.latestContent, disk, p) = ReadFileOk(latestContent, disk, p)
           /\ ReadFileContent(r.t.latestContent, disk, p) = ReadFileContent(latestContent, disk, p)
      /\ r.t.operationCounter = operationCounter
      /\ r.t.isCommitted = isCommitted

\* C10 witness: besides two staged operations a call on the other path failed
\* validation (its captured original state is all it left behind), and both
\* kinds of validation error can be provoked
C10_Witness ==
  /\ Len(operationQueue) = 2 /\ operationCounter = 2
  /\ \E p \in Paths :
       /\ originalStates[p].captured
       /\ p \notin QueuedPaths(operationQueue)
       /\ ~MapHas(latestContent, p)
       /\ \E r \in StagingOutcomes : r.err = "CreateConflict"
       /\ \E r \in StagingOutcomes : r.err = "MissingFile"

\* the projection says p does not exist: its latest staged state is a delete
\* (a cached entry with exists=false), or it is not cached and no file on disk
ProjectionAbsent(lc, d, p) ==
  IF MapHas(lc, p) THEN ~MapGet(lc, p).exists ELSE ~StatIsFile(d, p)

\* C11: readFile(p) fails with the not-found error exactly when the
\* projection says p does not exist, and fileExists(p) returns false in
\* those same states.
C11_ReadFileMirrorsFileExists ==
  \A p \in Paths :
    /\ ~ReadFileOk(latestContent, disk, p) <=> ProjectionAbsent(latestContent, disk, p)
    /\ ProjectionAbsent(latestContent, disk, p) => ~FileExists(latestContent, disk, p)

\* C12: restore() sets the live queue, projection, original-state store and
\* counter to exactly the values they had when createCheckpoint() was called:
\* the snapshot is taken of the live values, no later call alters it, and
\* every restore() of it, the first or a later one, installs it; a restore()
\* directly after createCheckpoint() leaves preview() unchanged.
C12_CheckpointRestoresSnapshot ==
  [][/\ createCheckpoint =>
          LET cp == checkpoints'[Len(checkpoints')]
          IN /\ cp.savedOperations = operationQueue
             /\ cp.savedLatestContent = latestContent
             /\ cp.savedOriginalStates = originalStates
             /\ cp.savedCounter = operationCounter
             /\ Preview(Restore(Tree, cp)) = Preview(Tree)
     /\ \A i \in 1..Len(checkpoints) :
          /\ Len(checkpoints') >= i
          /\ checkpoints'[i] = checkpoints[i]
          /\ restore(i) =>
               /\ operationQueue' = checkpoints[i].savedOperations
               /\ latestContent' = checkpoints[i].savedLatestContent
               /\ originalStates' = checkpoints[i].savedOriginalStates
               /\ operationCounter' = checkpoints[i].savedCounter]_vars

\* C12 witness: a checkpoint taken with one staged operation was restored
\* after another path was staged and committed (only restore() clears
\* isCommitted without ending the transaction)
C12_Witness ==
  /\ committedOnce /\ ~isCommitted
  /\ Len(checkpoints) = 1
  /\ Len(checkpoints[1].savedOperations) = 1
  /\ operationQueue = checkpoints[1].savedOperations
  /\ latestContent = checkpoints[1].savedLatestContent
  /\ \E q \in Paths \ QueuedPaths(operationQueue) : disk[q] # baseline[q]

\* a rollback() that returned is followed by a second rollback() that changes
\* neither the disk nor the in-memory state
SecondRollbackNoOp ==
  \A F1 \in FaultSets, F2 \in FaultSets :
    LET r1 == Rollback(Tree, disk, F1)
        r2 == Rollback(r1.t, r1.disk, F2)
    IN r1.err = "none" => (r2.err = "none" /\ r2.t = r1.t /\ r2.disk = r1.disk)

\* C13 as stated: rollback() on a transaction with zero staged operations
\* returns and leaves the disk and the whole in-memory state unchanged, and a
\* second rollback() directly after a first changes nothing.
C13_RollbackNoOp ==
  /\ operationQueue = <<>> =>
       \A F \in FaultSets :
         LET r == Rollback(Tree, disk, F)
         IN r.err = "none" /\ r.disk = disk /\ r.t = Tree
  /\ SecondRollbackNoOp

\* C13 amended: rollback() on a transaction that is not committed and has
\* zero staged operations returns and leaves the disk, the queue, the
\* original-state store, the counter and the committed flag unchanged; all it
\* does is empty the read cache.  A second rollback() directly after one that
\* returned changes neither disk nor in-memory state.
C13_RollbackNoOpUncommitted ==
  /\ (operationQueue = <<>> /\ ~isCommitted) =>
       \A F \in FaultSets :
         LET r == Rollback(Tree, disk, F)
         IN /\ r.err = "none"
            /\ r.disk = disk
            /\ r.t = [Tree EXCEPT !.latestContent = <<>>]
  /\ SecondRollbackNoOp

\* C13 witness: nothing is staged or committed, a read is cached and a failed
\* staging call has left a captured original state
C13_Witness ==
  /\ operationQueue = <<>> /\ ~isCommitted /\ ~commitCalled
  /\ operationCounter = 0
  /\ latestContent # <<>>
  /\ \E p \in Paths : originalStates[p].captured /\ originalStates[p].existed

\* ------------------------------------------------------------------ runPlugin
\* runPlugin(pluginFn, projectRoot) of plugin-context.ts: a new tree is
\* initialized, the plugin function makes any calls on its PluginContext
\* (addDependency and addVitePlugin are a readFile followed by a modifyFile),
\* and then runPlugin commits, or rolls back and raises again.
\* pc: "start", "plugin" (the plugin function runs), "returned" (it returned),
\* "raised" (an error reached the catch block), "resolved", "rejected".
InitRunPlugin ==
  /\ disk \in DiskStates
  /\ baseline = disk
  /\ operationQueue = <<>>
  /\ originalStates = EmptyOriginalStates
  /\ latestContent = <<>>
  /\ isCommitted = FALSE
  /\ operationCounter = 0
  /\ checkpoints = <<>>
  /\ commitCalled = FALSE
  /\ committedOnce = FALSE
  /\ calls = 0
  /\ pc = "start"
  /\ runCommits = 0
  /\ pluginCommits = 0
  /\ flow = NoFlow
  /\ operations = <<>>
  /\ imported = <<>>
  /\ inflight = NoCalls

\* where an error thrown by a call of the plugin function can go: the plugin
\* function catches it and goes on, or lets it reach runPlugin's catch block
AfterCall(err) == IF err = "none" THEN {"plugin"} ELSE {"plugin", "raised"}

\* const vft = new VirtualFileTree(projectRoot); await vft.initialize()
runPluginStart ==
  /\ pc = "start"
  /\ SetTree(FreshTree)
  /\ baseline' = disk
  /\ pc' = "plugin"
  /\ UNCHANGED <<flow, operations, imported, inflight, disk, checkpoints, commitCalled, committedOnce, calls, runCommits,
                 pluginCommits>>

\* a staging call of the plugin function whose outcome is r
PluginCall(r) ==
  /\ pc = "plugin"
  /\ WithinBounds(r)
  /\ SetTree(r.t)
  /\ calls' = IF r.t # Tree THEN calls + 1 ELSE calls
  /\ pc' \in AfterCall(r.err)
  /\ UNCHANGED <<flow, operations, imported, inflight, disk, checkpoints, baseline, commitCalled, committedOnce, runCommits,
                 pluginCommits>>

\* ctx.createFile(path, content)
pluginCreateFile(p, c) ==
  /\ p \in Paths
  /\ PluginCall(AddOperation(Tree, disk, p, "create", c))

\* ctx.modifyFile(path, content)
pluginModifyFile(p, c) ==
  /\ p \in Paths
  /\ PluginCall(AddOperation(Tree, disk, p, "modify", c))

\* ctx.readFile(path)
pluginReadFile(p) ==
  LET lc1 == ReadFileCache(latestContent, disk, p)
  IN /\ pc = "plugin"
     /\ lc1 # latestContent => calls < MaxOps
     /\ latestContent' = lc1
     /\ calls' = IF lc1 # latestContent THEN calls + 1 ELSE calls
     /\ pc' \in AfterCall(IF ReadFileOk(latestContent, disk, p) THEN "none" ELSE "NotFound")
     /\ UNCHANGED <<flow, operations, imported, inflight, disk, operationQueue, originalStates, isCommitted, operationCounter,
                    checkpoints, baseline, commitCalled, committedOnce, runCommits,
                    pluginCommits>>

\* ctx.commit() called by the plugin function itself (at most once)
pluginCommit ==
  \E F \in FaultSets :
    LET r == Commit(Tree, disk, F)
    IN /\ pc = "plugin"
       /\ pluginCommits = 0
       /\ SetTree(r.t)
       /\ disk' = r.disk
       /\ commitCalled' = TRUE
       /\ committedOnce' = (committedOnce \/ r.err = "none")
       /\ pluginCommits' = pluginCommits + 1
       /\ pc' \in AfterCall(r.err)
       /\ UNCHANGED <<flow, operations, imported, inflight, checkpoints, baseline, calls, runCommits>>

\* ctx.rollback() called by the plugin function itself
pluginRollback ==
  \E F \in FaultSets :
    LET r == Rollback(Tree, disk, F)
        reset == isCommitted /\ r.err = "none"
    IN /\ pc = "plugin"
       /\ SetTree(r.t)
       /\ disk' = r.disk
       /\ baseline' = IF reset THEN r.disk ELSE baseline
       /\ commitCalled' = IF reset THEN FALSE ELSE commitCalled
       /\ committedOnce' = IF reset THEN FALSE ELSE committedOnce
       /\ pc' \in AfterCall(r.err)
       /\ UNCHANGED <<flow, operations, imported, inflight, checkpoints, calls, runCommits, pluginCommits>>

\* the plugin function throws an error of its own
pluginThrows ==
  /\ pc = "plugin"
  /\ pc' = "raised"
  /\ UNCHANGED <<flow, operations, imported, inflight, disk, operationQueue, originalStates, latestContent, isCommitted,
                 operationCounter, checkpoints, baseline, commitCalled, committedOnce,
                 calls, runCommits, pluginCommits>>

\* the plugin function returns
pluginReturns ==
  /\ pc = "plugin"
  /\ pc' = "returned"
  /\ UNCHANGED <<flow, operations, imported, inflight, disk, operationQueue, originalStates, latestContent, isCommitted,
                 operationCounter, checkpoints, baseline, commitCalled, committedOnce,
                 calls, runCommits, pluginCommits>>

\* await ctx.commit() in the try block of runPlugin: an error goes to the catch
runPluginCommit ==
  \E F \in FaultSets :
    LET r == Commit(Tree, disk, F)
    IN /\ pc = "returned"
       /\ SetTree(r.t)
       /\ disk' = r.disk
       /\ commitCalled' = TRUE
       /\ committedOnce' = (committedOnce \/ r.err = "none")
       /\ runCommits' = runCommits + 1
       /\ pc' = IF r.err = "none" THEN "resolved" ELSE "raised"
       /\ UNCHANGED <<flow, operations, imported, inflight, checkpoints, baseline, calls, pluginCommits>>

\* a catch block that raises the error again without rolling back
runPluginRethrowOnly ==
  /\ pc = "raised"
  /\ pc' = "rejected"
  /\ UNCHANGED <<flow, operations, imported, inflight, disk, operationQueue, originalStates, latestContent, isCommitted,
                 operationCounter, checkpoints, baseline, commitCalled, committedOnce,
                 calls, runCommits, pluginCommits>>

\* the catch block of runPlugin: await ctx.rollback(); throw error (an error
\* of rollback() itself is raised in its place)
runPluginRollback ==
  \E F \in FaultSets :
    LET r == Rollback(Tree, disk, F)
        reset == isCommitted /\ r.err = "none"
    IN /\ pc = "raised"
       /\ SetTree(r.t)
       /\ disk' = r.disk
       /\ baseline' = IF reset THEN r.disk ELSE baseline
       /\ commitCalled' = IF reset THEN FALSE ELSE commitCalled
       /\ committedOnce' = IF reset THEN FALSE ELSE committedOnce
       /\ pc' = "rejected"
       /\ UNCHANGED <<flow, operations, imported, inflight, checkpoints, calls, runCommits, pluginCommits>>

NextRunPlugin ==
  \/ runPluginStart
  \/ \E p \in Paths, c \in Contents : pluginCreateFile(p, c)
  \/ \E p \in Paths, c \in Contents : pluginModifyFile(p, c)
  \/ \E p \in Paths : pluginReadFile(p)
  \/ pluginCommit
  \/ pluginRollback
  \/ pluginThrows
  \/ pluginReturns
  \/ runPluginCommit
  \/ runPluginRollback

\* one call of runPlugin with any plugin function, on a filesystem that can
\* fail the mutating calls
SpecRunPlugin == InitRunPlugin /\ [][NextRunPlugin]_vars

\* the step is a rollback() call: tree and disk change as rollback() changes them
IsRollbackStep ==
  \E F \in FaultSets :
    LET r == Rollback(Tree, disk, F)
    IN /\ operationQueue' = r.t.operationQueue
       /\ latestContent' = r.t.latestContent
       /\ originalStates' = r.t.originalStates
       /\ isCommitted' = r.t.isCommitted
       /\ disk' = r.disk

C15_CommitAtomic ==
  [][\A F \in FaultSets :
       (Commit(Tree, disk, F).err = "CommitFailed" /\ commitWith(F)) =>
         \A k \in FsKeys : FileView(disk'[k]) = FileView(disk[k])]_vars

\* C16: transformFile(p, fn) on a path that readFile finds in the projection
\* appends exactly one operation, a modify whose content is fn applied to the
\* projected content of p (earlier staged operations included); readFile(p)
\* afterwards is fn(readFile(p) before), and the disk is not changed.
C16_TransformFile ==
  [][\A p \in Paths, fn \in Transformers :
       (ReadFileOk(latestContent, disk, p) /\ transformFile(p, fn)) =>
         LET before == ReadFileContent(latestContent, disk, p)
         IN /\ operationQueue' =
                 Append(operationQueue,
                        [id |-> operationCounter + 1, path |-> p, type |-> "modify",
                         content |-> ApplyTransformer(fn, before)])
            /\ ReadFileOk(latestContent', disk', p)
            /\ ReadFileContent(latestContent', disk', p) = ApplyTransformer(fn, before)
            /\ disk' = disk]_vars

\* C16 witness: a file with content "o" on disk was appended to and then
\* transformed; the transformer saw the appended content, the disk did not change
C16_Witness ==
  \E p \in Paths :
    /\ disk[p] = FileEntry(OrigContent)
    /\ Len(operationQueue) = 2
    /\ operationQueue[1].path = p /\ operationQueue[1].type = "append"
    /\ operationQueue[2].path = p /\ operationQueue[2].type = "modify"
    /\ operationQueue[2].content = ApplyTransformer("tag", OrigContent \o "x")
    /\ ReadFileContent(latestContent, disk, p) = ApplyTransformer("tag", OrigContent \o "x")

\* C17: overwriteFile(p, c) never fails with a create-conflict or missing-file
\* error: it stages a create when fileExists(p) is false and a modify when it
\* is true, and afterwards fileExists(p) is true and readFile(p) returns c.
C17_OverwriteFile ==
  \A p \in Paths, c \in Contents :
    LET r == OverwriteFile(Tree, disk, p, c)
        type == IF FileExists(latestContent, disk, p) THEN "modify" ELSE "create"
    IN /\ r.err = "none"
       /\ r.t.operationQueue =
            Append(operationQueue,
                   [id |-> operationCounter + 1, path |-> p, type |-> type, content |-> c])
       /\ FileExists(r.t.latestContent, disk, p)
       /\ ReadFileOk(r.t.latestContent, disk, p)
       /\ ReadFileContent(r.t.latestContent, disk, p) = c

\* the last queued operation on path p, if any, is a delete
LatestStagedIsDelete(q, p) ==
  /\ p \in QueuedPaths(q)
  /\ q[CHOOSE i \in 1..Len(q) :
         q[i].path = p /\ \A j \in (i+1)..Len(q) : q[j].path # p].type = "delete"

\* C18: toFsUpdates() returns exactly one entry for every path whose projection
\* entry has exists=true and none for a path whose latest staged operation is
\* a delete; each entry carries the absolute path under the root, the bytes of
\* the current projected content, and an operation kind.
C18_ToFsUpdates ==
  LET u == ToFsUpdates(Tree)
      Entries(p) == { i \in 1..Len(u) : u[i].path = Resolve(p) }
  IN /\ \A p \in Paths :
          /\ Cardinality(Entries(p)) =
               IF MapHas(latestContent, p) /\ MapGet(latestContent, p).exists
               THEN 1 ELSE 0
          /\ LatestStagedIsDelete(operationQueue, p) => Entries(p) = {}
     /\ \A i \in 1..Len(u) :
          /\ u[i].type \in {"create", "modify", "delete"}
          /\ \E p \in Paths :
               /\ u[i].path = Resolve(p)
               /\ ReadFileOk(latestContent, disk, p)
               /\ u[i].content = BufferFrom(ReadFileContent(latestContent, disk, p))

\* a file staged for deletion next to a created one: one entry, for the latter
C18_Witness ==
  /\ LatestStagedIsDelete(operationQueue, "a")
  /\ StatIsFile(disk, "a")
  /\ MapHas(latestContent, "d/f") /\ MapGet(latestContent, "d/f").exists
  /\ Len(latestContent) = 2
  /\ ToFsUpdates(Tree) =
       <<[path |-> "/root/d/f",
          content |-> BufferFrom(MapGet(latestContent, "d/f").content),
          type |-> "modify"]>>

\* the filesystem as a call on the empty path sees it: resolve(rootDir, '') is
\* rootDir itself, an existing directory, and relative(rootDir, rootDir) is ''
RootedDisk(d) == (RootKey :> DirEntry) @@ d

\* the tree with the empty key, which no earlier call has captured
RootedTree(t) == [t EXCEPT !.originalStates = (RootKey :> NotCaptured) @@ @]

\* the outcomes of every staging call on the empty path in the current state
EmptyPathOutcomes ==
  { AddOperation(RootedTree(Tree), RootedDisk(disk), RootKey, type, c) :
      type \in {"create", "modify", "append", "prepend"}, c \in Contents }
  \cup { AddOperation(RootedTree(Tree), RootedDisk(disk), RootKey, "delete", "") }
  \cup { OverwriteFile(RootedTree(Tree), RootedDisk(disk), RootKey, c) : c \in Contents }
  \cup { TransformFile(RootedTree(Tree), RootedDisk(disk), RootKey, fn) :
           fn \in Transformers }

\* C19: every staging call (createFile, modifyFile, deleteFile, appendToFile,
\* prependToFile, overwriteFile, transformFile) given an empty path fails with
\* an error and appends nothing to the queue.
C19_EmptyPathRejected ==
  \A r \in EmptyPathOutcomes :
    /\ r.err # "none"
    /\ Preview(r.t) = operationQueue

\* a step that ends the transaction: initialize() or a post-commit rollback()
EndsTransaction == initialize \/ (isCommitted /\ rollback)

\* C20: the original state of a path is captured at most once per transaction,
\* by the first staging call on the path and from the disk as that call finds
\* it; the captured value (existed, content) never changes afterwards until
\* initialize() or a post-commit rollback, and it always equals the state the
\* path had on disk when the transaction began.
C20_OriginalStateCapturedOnce ==
  [][\A p \in Paths :
       /\ ~originalStates[p].captured =>
            \A r \in { AddOperation(Tree, disk, p, type, c) :
                         type \in {"create", "modify", "append", "prepend", "delete"},
                         c \in Contents } :
              r.t.originalStates[p] = CaptureOriginalState(disk, p)
       /\ (~originalStates[p].captured /\ originalStates'[p].captured) =>
            /\ originalStates'[p] = CaptureOriginalState(disk, p)
            /\ disk' = disk
       /\ (originalStates[p].captured /\ ~EndsTransaction) =>
            originalStates'[p] = originalStates[p]
       /\ originalStates'[p].captured =>
            originalStates'[p] = CaptureOriginalState(baseline', p)]_vars

\* C21: the operation queue is append-only and ordered: a successful staging
\* call appends exactly one operation at the end and leaves the operations
\* already queued as they are, a failed one leaves the queue alone; preview()
\* returns all queued operations in staging order, several on one path
\* included; the ids of the queued operations are pairwise distinct and
\* strictly increasing in queue order.
C21_QueueAppendOnly ==
  /\ \A r \in StagingOutcomes :
       LET q == Preview(r.t)
       IN IF r.err = "none"
          THEN /\ Len(q) = Len(operationQueue) + 1
               /\ SubSeq(q, 1, Len(operationQueue)) = operationQueue
               /\ q[Len(q)].id = operationCounter + 1
          ELSE q = operationQueue
  /\ Preview(Tree) = operationQueue
  /\ \A i, j \in 1..Len(operationQueue) :
       i < j => operationQueue[i].id < operationQueue[j].id
  /\ \A i \in 1..Len(operationQueue) : operationQueue[i].id <= operationCounter

\* two operations on the same path are queued, in the order they were staged,
\* with ids that continue after an earlier pre-commit rollback
C21_Witness ==
  /\ Len(operationQueue) = 2
  /\ operationQueue[1].path = "a" /\ operationQueue[2].path = "a"
  /\ operationQueue[1].type = "create" /\ operationQueue[2].type = "append"
  /\ operationQueue[1].id = 2 /\ operationQueue[2].id = 3

\* does commit(), run while the environment rejects the mutating calls on the
\* keys in F, meet a rejected mkdir, writeFile or unlink of an existing file
CommitMeetsFailure(t, d, F) ==
  LET m == CommitMkdirs(d, Directories(t.operationQueue), 1, F)
      w == CommitFiles(m.disk, t.latestContent, 1, F)
  IN \/ ~m.ok
     \/ ~w.ok
     \/ \E i \in 1..Len(t.latestContent) :
          /\ ~t.latestContent[i].exists
          /\ t.latestContent[i].path \in F
          /\ StatIsFile(d, t.latestContent[i].path)

\* C22: when a directory creation, a write or a delete fails during commit(),
\* commit() throws, the transaction stays uncommitted and the queue, the
\* projection and the original-state store are what they were before the call.
C22_FailedCommitKeepsTransaction ==
  [][\A F \in FaultSets :
       (~isCommitted /\ CommitMeetsFailure(Tree, disk, F) /\ commitWith(F)) =>
         /\ Commit(Tree, disk, F).err = "CommitFailed"
         /\ ~isCommitted'
         /\ operationQueue' = operationQueue
         /\ latestContent' = latestContent
         /\ originalStates' = originalStates]_vars

\* C23: if commit() throws after some of its writes or deletes were applied to
\* disk, a rollback() called immediately afterwards restores every staged path
\* on disk to its pre-transaction content and existence.
C23_RollbackAfterFailedCommit ==
  \A F \in FaultSets :
    LET c == Commit(Tree, disk, F)
        r == Rollback(c.t, c.disk, {})
    IN (/\ c.err = "CommitFailed"
        /\ \E k \in Paths : FileView(c.disk[k]) # FileView(disk[k])) =>
         \A p \in QueuedPaths(operationQueue) :
           FileView(r.disk[p]) = FileView(baseline[p])

\* C24: after a post-commit rollback() the in-memory state is that of a
\* freshly initialized transaction: empty queue, empty projection, empty
\* original-state store, counter 0, isCommitted false; the next staged
\* operation gets the id op_1 and commit() is open again.
C24_PostCommitRollbackResets ==
  [][\A F \in FaultSets :
       (isCommitted /\ Rollback(Tree, disk, F).err = "none" /\ rollbackWith(F)) =>
         /\ operationQueue' = <<>>
         /\ latestContent' = <<>>
         /\ originalStates' = EmptyOriginalStates
         /\ operationCounter' = 0
         /\ ~isCommitted'
         /\ \A p \in Paths, c \in Contents :
              LET r == OverwriteFile(FreshTree, disk', p, c)
                  again == [operationQueue |-> operationQueue',
                            originalStates |-> originalStates',
                            latestContent |-> latestContent',
                            isCommitted |-> isCommitted',
                            operationCounter |-> operationCounter']
              IN /\ again = FreshTree
                 /\ OverwriteFile(again, disk', p, c) = r
                 /\ r.err = "none" => /\ Preview(r.t)[1].id = 1
                                      /\ Commit(r.t, disk', {}).err = "none"]_vars

\* a committed transaction with two operations that changed the disk, whose
\* rollback returns the fresh state and lets the next operation be op_1
C24_Witness ==
  /\ isCommitted /\ operationCounter = 2 /\ Len(operationQueue) = 2
  /\ disk["a"] # baseline["a"]
  /\ Rollback(Tree, disk, {}).err = "none"
  /\ Rollback(Tree, disk, {}).t = FreshTree
  /\ Rollback(Tree, disk, {}).disk["a"] = baseline["a"]
  /\ Preview(AddOperation(Rollback(Tree, disk, {}).t, Rollback(Tree, disk, {}).disk,
                          "d/f", "create", "x").t)[1].id = 1

\* a step that clears or replaces the projection
ClearsProjection == rollback \/ initialize \/ \E i \in 1..Len(checkpoints) : restore(i)

\* C25: for a path that has not been staged and is a file on disk the first
\* readFile reads the disk and caches the content; from then on, until a
\* rollback, initialize or checkpoint restore clears the projection, the entry
\* of the unstaged path stays as it is, and readFile and fileExists answer
\* from it, whatever the disk holds.
C25_ReadCache ==
  [][\A p \in Paths :
       /\ (~MapHas(latestContent, p) /\ StatIsFile(disk, p) /\ readFile(p)) =>
            /\ latestContent' =
                 Append(latestContent, [path |-> p, content |-> disk[p].content, exists |-> TRUE])
            /\ ReadFileContent(latestContent', disk', p) = disk[p].content
       /\ (/\ MapHas(latestContent, p)
           /\ p \notin QueuedPaths(operationQueue) \cup QueuedPaths(operationQueue')
           /\ ~ClearsProjection) =>
            /\ MapHas(latestContent', p)
            /\ MapGet(latestContent', p) = MapGet(latestContent, p)
       /\ MapHas(latestContent', p) =>
            \A d \in DiskStates :
              /\ ReadFileOk(latestContent', d, p) = MapGet(latestContent', p).exists
              /\ FileExists(latestContent', d, p) = MapGet(latestContent', p).exists
              /\ ReadFileOk(latestContent', d, p) =>
                   ReadFileContent(latestContent', d, p) = MapGet(latestContent', p).content]_vars

\* the file a was read and cached, then modified and committed behind a
\* checkpoint; after the restore the unstaged path still reads as cached
C25_Witness ==
  /\ operationQueue = <<>>
  /\ latestContent = <<[path |-> "a", content |-> OrigContent, exists |-> TRUE]>>
  /\ StatIsFile(disk, "a") /\ disk["a"].content # OrigContent
  /\ ReadFileContent(latestContent, disk, "a") = OrigContent

\* -------------------------------------------------------------- executePlugin
\* executePlugin(app, pluginInfo, pluginPath, pkgManager) of
\* run-install-interactive.ts: a PluginContext with a new tree is made, the
\* plugin function runs against it (staging calls, reads, and possibly its own
\* ctx.commit()), then executePlugin commits and runs the package-manager
\* install; the catch block around all of it rolls back and raises again.
\* pc: "start", "plugin", "returned", "committed" (commit() resolved),
\* "raised" (an error reached the catch block), "resolved", "rejected".
InitExecutePlugin == InitRunPlugin

\* const pluginContext = new PluginContext(app.rootDir), which makes the tree
executePluginStart ==
  /\ pc = "start"
  /\ SetTree(FreshTree)
  /\ baseline' = disk
  /\ pc' = "plugin"
  /\ UNCHANGED <<flow, operations, imported, inflight, disk, checkpoints, commitCalled, committedOnce, calls, runCommits,
                 pluginCommits>>

\* await pluginContext.commit() in the try block of executePlugin
executePluginCommit ==
  \E F \in FaultSets :
    LET r == Commit(Tree, disk, F)
    IN /\ pc = "returned"
       /\ SetTree(r.t)
       /\ disk' = r.disk
       /\ commitCalled' = TRUE
       /\ committedOnce' = (committedOnce \/ r.err = "none")
       /\ runCommits' = runCommits + 1
       /\ pc' = IF r.err = "none" THEN "committed" ELSE "raised"
       /\ UNCHANGED <<flow, operations, imported, inflight, checkpoints, baseline, calls, pluginCommits>>

\* await runInPkg(pkgManager, ['install'], app.rootDir) and the log calls
\* after it: they return or throw, and touch no file of the tree
runInPkg ==
  /\ pc = "committed"
  /\ pc' \in {"resolved", "raised"}
  /\ UNCHANGED <<flow, operations, imported, inflight, disk, operationQueue, originalStates, latestContent, isCommitted,
                 operationCounter, checkpoints, baseline, commitCalled, committedOnce,
                 calls, runCommits, pluginCommits>>

\* the catch block of executePlugin: await pluginContext.rollback(); throw error
executePluginRollback ==
  \E F \in FaultSets :
    LET r == Rollback(Tree, disk, F)
        reset == isCommitted /\ r.err = "none"
    IN /\ pc = "raised"
       /\ SetTree(r.t)
       /\ disk' = r.disk
       /\ baseline' = IF reset THEN r.disk ELSE baseline
       /\ commitCalled' = IF reset THEN FALSE ELSE commitCalled
       /\ committedOnce' = IF reset THEN FALSE ELSE committedOnce
       /\ pc' = "rejected"
       /\ UNCHANGED <<flow, operations, imported, inflight, checkpoints, calls, runCommits, pluginCommits>>

NextExecutePlugin ==
  \/ executePluginStart
  \/ \E p \in Paths, c \in Contents : pluginCreateFile(p, c)
  \/ \E p \in Paths, c \in Contents : pluginModifyFile(p, c)
  \/ \E p \in Paths : pluginReadFile(p)
  \/ pluginCommit
  \/ pluginThrows
  \/ pluginReturns
  \/ executePluginCommit
  \/ runInPkg
  \/ executePluginRollback

\* one call of executePlugin with any plugin function, on a filesystem that
\* can fail the mutating calls
SpecExecutePlugin == InitExecutePlugin /\ [][NextExecutePlugin]_vars

\* C26: in executePlugin the plugin function has returned before commit() is
\* called, the package-manager install runs only after commit() succeeded,
\* and when any step throws, the install after a successful commit included,
\* rollback() runs before the error is raised again and leaves every file the
\* plugin touched as it was before the install.
C26_ExecutePlugin ==
  [][/\ runCommits' # runCommits => pc = "returned"
     /\ pc' = "committed" => (pc \in {"returned", "committed"} /\ isCommitted')
     /\ (pc' = "resolved" /\ pc # "resolved") => (pc = "committed" /\ isCommitted)
     /\ (pc' = "rejected" /\ pc # "rejected") =>
          /\ pc = "raised"
          /\ IsRollbackStep
          /\ \A p \in Paths : FileView(disk'[p]) = FileView(baseline[p])]_vars

\* ------------------------------------------------------ runInstallInteractive
\* the install command: runInstallInteractive sends a registry plugin to
\* executePlugin and any other name to handleCommunityPlugin, which warns,
\* asks, installs the package and then calls executePlugin; loadPlugin, the
\* first statement of executePlugin, sends a GitHub URL to loadExternalPlugin,
\* which warns, asks, downloads and imports.
\* pc before executePlugin's own positions: "runInstall", "warning" (the
\* community warning is shown), "install", "loadPlugin", "securityWarning",
\* "fetch"; "exited" (process.exit(0)) and "failed" (an error left the
\* command before a PluginContext was made) are final.
InitInstall ==
  /\ disk \in DiskStates
  /\ baseline = disk
  /\ operationQueue = <<>>
  /\ originalStates = EmptyOriginalStates
  /\ latestContent = <<>>
  /\ isCommitted = FALSE
  /\ operationCounter = 0
  /\ checkpoints = <<>>
  /\ commitCalled = FALSE
  /\ committedOnce = FALSE
  /\ calls = 0
  /\ pc = "runInstall"
  /\ runCommits = 0
  /\ pluginCommits = 0
  /\ flow = NoFlow
  /\ operations = <<>>
  /\ imported = <<>>
  /\ inflight = NoCalls

\* what the install steps before executePlugin leave alone
InstallUnchanged ==
  UNCHANGED <<disk, operationQueue, originalStates, latestContent, isCommitted,
              operationCounter, checkpoints, baseline, commitCalled, committedOnce,
              calls, runCommits, pluginCommits, operations, imported, inflight>>

\* the answers a prompt can return: the two options, or the cancel symbol
Answers == {"yes", "no", "cancel"}

\* runInstallInteractive(app, pluginName): PLUGIN_REGISTRY[pluginName] or not
runInstallInteractive(name) ==
  /\ pc = "runInstall"
  /\ name \in {"registry", "community"}
  /\ flow' = [flow EXCEPT !.name = name]
  /\ pc' = IF name = "registry" THEN "loadPlugin" ELSE "warning"
  /\ InstallUnchanged

\* a handleCommunityPlugin that goes on to install whatever the answer is
handleCommunityPluginNoCheck(answer) ==
  /\ pc = "warning"
  /\ answer \in Answers
  /\ flow' = [flow EXCEPT !.proceed = (answer = "yes")]
  /\ pc' = "install"
  /\ InstallUnchanged

\* handleCommunityPlugin: select(...), then
\* if (isCancel(shouldContinue) || !shouldContinue) process.exit(0)
handleCommunityPlugin(answer) ==
  /\ pc = "warning"
  /\ answer \in Answers
  /\ IF answer = "yes"
     THEN flow' = [flow EXCEPT !.proceed = TRUE] /\ pc' = "install"
     ELSE flow' = flow /\ pc' = "exited"
  /\ InstallUnchanged

\* handleCommunityPlugin: runInPkg(pkgManager, ['install', packageName]) and
\* findPluginInPackage, then executePlugin; an error of either leaves the command
installCommunityPackage ==
  /\ pc = "install"
  /\ flow' = [flow EXCEPT !.installed = TRUE]
  /\ pc' \in {"loadPlugin", "failed"}
  /\ InstallUnchanged

\* loadPlugin(pluginPath): a GitHub URL goes to loadExternalPlugin, any other
\* path is imported, which can throw
loadPlugin(path) ==
  /\ pc = "loadPlugin"
  /\ path \in {"local", "github"}
  /\ flow' = [flow EXCEPT !.path = path]
  /\ pc' \in (IF path = "github" THEN {"securityWarning"} ELSE {"start", "failed"})
  /\ InstallUnchanged

\* showSecurityWarning and its caller: cancel throws, a false answer throws
showSecurityWarning(answer) ==
  /\ pc = "securityWarning"
  /\ answer \in Answers
  /\ IF answer = "yes"
     THEN flow' = [flow EXCEPT !.confirmed = TRUE] /\ pc' = "fetch"
     ELSE flow' = flow /\ pc' = "failed"
  /\ InstallUnchanged

\* loadExternalPlugin: fetchGitHubPlugin, createTempPlugin and import
fetchGitHubPlugin ==
  /\ pc = "fetch"
  /\ flow' = [flow EXCEPT !.fetched = TRUE]
  /\ pc' \in {"start", "failed"}
  /\ InstallUnchanged

NextInstall ==
  \/ \E name \in {"registry", "community"} : runInstallInteractive(name)
  \/ \E answer \in Answers : handleCommunityPlugin(answer)
  \/ installCommunityPackage
  \/ \E path \in {"local", "github"} : loadPlugin(path)
  \/ \E answer \in Answers : showSecurityWarning(answer)
  \/ fetchGitHubPlugin
  \/ executePluginStart
  \/ \E p \in Paths, c \in Contents : pluginCreateFile(p, c)
  \/ \E p \in Paths, c \in Contents : pluginModifyFile(p, c)
  \/ \E p \in Paths : pluginReadFile(p)
  \/ pluginCommit
  \/ pluginThrows
  \/ pluginReturns
  \/ executePluginCommit
  \/ runInPkg
  \/ executePluginRollback

\* one run of the install command, with any plugin name, plugin path, answers
\* and plugin function
SpecInstall == InitInstall /\ [][NextInstall]_vars

\* the positions at which the plugin's code has been imported or has run
PluginLoaded == {"start", "plugin", "returned", "committed", "raised", "resolved", "rejected"}

C27_WitnessDeclined ==
  /\ pc = "exited" /\ flow.name = "community" /\ ~flow.proceed /\ ~flow.installed

\* ------------------------------------------------- the map-based VirtualFileTree
\* the version of VirtualFileTree that keeps one staged operation per absolute
\* path in a Map (operations) and has both toFsUpdates and fromFsUpdates

\* the absolute paths of the keys callers pass
AbsolutePaths == { Resolve(p) : p \in Paths }

\* resolve(this.rootDir, path) for a path that may already be absolute
ResolveAny(x) == IF x \in AbsolutePaths THEN x ELSE Resolve(x)

\* buffer.toString('utf-8')
BufferToString(b) == b.bytes

\* originalContent of an operation that has none
Undefined == [undefined |-> TRUE]

\* fileExists(path) of the map-based tree: a staged operation, or existsSync
MapFileExists(ops, d, p) == MapHas(ops, Resolve(p)) \/ ExistsSync(d, p)

\* readFile(path) of the map-based tree: does the call return
MapReadFileOk(ops, d, p) == MapHas(ops, Resolve(p)) \/ StatIsFile(d, p)

\* readFile(path) of the map-based tree: the staged content, else the file
MapReadFileContent(ops, d, p) ==
  IF MapHas(ops, Resolve(p)) THEN MapGet(ops, Resolve(p)).content ELSE d[p].content

\* the originalContent modifyFile and overwriteFile store: the file on disk,
\* or what the staged operation of the path holds
MapOriginalContent(ops, d, p) ==
  IF StatIsFile(d, p) THEN d[p].content
  ELSE IF MapHas(ops, Resolve(p)) THEN MapGet(ops, Resolve(p)).originalContent
  ELSE Undefined

\* createFile(path, content) of the map-based tree
MapCreateFile(ops, d, p, c) ==
  IF MapFileExists(ops, d, p) THEN [err |-> "CreateConflict", ops |-> ops]
  ELSE [err |-> "none",
        ops |-> MapSet(ops, [path |-> Resolve(p), type |-> "create", content |-> c,
                             originalContent |-> Undefined])]

\* modifyFile(path, content) of the map-based tree
MapModifyFile(ops, d, p, c) ==
  IF ~MapFileExists(ops, d, p) THEN [err |-> "MissingFile", ops |-> ops]
  ELSE [err |-> "none",
        ops |-> MapSet(ops, [path |-> Resolve(p), type |-> "modify", content |-> c,
                             originalContent |-> MapOriginalContent(ops, d, p)])]

\* overwriteFile(path, content) of the map-based tree
MapOverwriteFile(ops, d, p, c) ==
  [err |-> "none",
   ops |-> MapSet(ops, [path |-> Resolve(p),
                        type |-> IF MapFileExists(ops, d, p) THEN "overwrite" ELSE "create",
                        content |-> c,
                        originalContent |->
                          IF MapFileExists(ops, d, p) THEN MapOriginalContent(ops, d, p)
                          ELSE Undefined])]

\* toFsUpdates() of the map-based tree: every staged operation, in Map order
MapToFsUpdates(ops) ==
  [i \in 1..Len(ops) |->
     [path |-> ops[i].path, content |-> BufferFrom(ops[i].content), type |-> ops[i].type]]

\* a content that reaches fromFsUpdates as a string, not as a Buffer
JsString(s) == [string |-> s]

\* typeof file.content === 'string' ? file.content : file.content.toString('utf-8')
DecodeContent(c) == IF "string" \in DOMAIN c THEN c.string ELSE BufferToString(c)

\* a fromFsUpdates that takes no file whose type is 'modify'
RECURSIVE FromFsUpdatesNoModify(_, _, _)
FromFsUpdatesNoModify(ops, files, i) ==
  IF i > Len(files) THEN ops
  ELSE FromFsUpdatesNoModify(
         IF files[i].type = "modify" THEN ops
         ELSE MapSet(ops, [path |-> ResolveAny(files[i].path),
                           type |-> files[i].type,
                           content |-> DecodeContent(files[i].content)]),
         files, i + 1)

\* fromFsUpdates(fsUpdates), from file i on: the content is decoded when it is
\* a Buffer, the path is resolved under rootDir, and the operation is set
\* under the absolute path
RECURSIVE FromFsUpdates(_, _, _)
FromFsUpdates(ops, files, i) ==
  IF i > Len(files) THEN ops
  ELSE FromFsUpdates(MapSet(ops, [path |-> ResolveAny(files[i].path),
                                  type |-> files[i].type,
                                  content |-> DecodeContent(files[i].content)]),
                     files, i + 1)

\* get pendingOperations() of the map-based tree
MapPendingOperations(ops) == Len(ops)

\* a staging call of the map-based tree whose outcome is r
MapStagingCall(r) ==
  /\ r.ops # operations => calls < MaxOps
  /\ operations' = r.ops
  /\ calls' = IF r.ops # operations THEN calls + 1 ELSE calls
  /\ UNCHANGED <<disk, operationQueue, originalStates, latestContent, isCommitted,
                 operationCounter, checkpoints, baseline, commitCalled, committedOnce,
                 pc, runCommits, pluginCommits, flow, imported, inflight>>

mapCreateFile(p, c) ==
  /\ p \in Paths
  /\ MapStagingCall(MapCreateFile(operations, disk, p, c))

mapModifyFile(p, c) ==
  /\ p \in Paths
  /\ MapStagingCall(MapModifyFile(operations, disk, p, c))

mapOverwriteFile(p, c) ==
  /\ p \in Paths
  /\ MapStagingCall(MapOverwriteFile(operations, disk, p, c))

\* the export the caller hands over: of the queue-based tree or of the
\* map-based tree
Exported(src) == IF src = "tree" THEN ToFsUpdates(Tree) ELSE MapToFsUpdates(operations)

\* new VirtualFileTree(rootDir).fromFsUpdates(first.toFsUpdates())
fromFsUpdates(src) ==
  /\ src \in {"tree", "map"}
  /\ imported' = FromFsUpdates(<<>>, Exported(src), 1)
  /\ UNCHANGED <<disk, operationQueue, originalStates, latestContent, isCommitted,
                 operationCounter, checkpoints, baseline, commitCalled, committedOnce,
                 calls, pc, runCommits, pluginCommits, flow, operations, inflight>>

NextFsUpdates ==
  \/ \E p \in Paths, c \in Contents : createFile(p, c)
  \/ \E p \in Paths, c \in Contents : modifyFile(p, c)
  \/ \E p \in Paths, c \in Contents : appendToFile(p, c)
  \/ \E p \in Paths : deleteFile(p)
  \/ \E p \in Paths : readFile(p)
  \/ \E p \in Paths, c \in Contents : mapCreateFile(p, c)
  \/ \E p \in Paths, c \in Contents : mapModifyFile(p, c)
  \/ \E p \in Paths, c \in Contents : mapOverwriteFile(p, c)
  \/ \E src \in {"tree", "map"} : fromFsUpdates(src)

\* a queue-based and a map-based transaction on one root, staged on in any
\* order, and a fresh map-based transaction that imports the export of either
SpecFsUpdates == Init /\ [][NextFsUpdates]_vars

C29_TransformFallback ==
  \A p \in Paths, fn \in Transformers :
    ~ReadFileOk(latestContent, disk, p) =>
      LET r == TransformFile(Tree, disk, p, fn)
      IN /\ r.err = "none"
         /\ Preview(r.t) =
              Append(operationQueue,
                     [id |-> operationCounter + 1, path |-> p, type |-> "modify",
                      content |-> ApplyTransformer(fn, "")])

\* C30: in every reachable state every path that occurs in the operation
\* queue has an entry in the original-state store and an entry in the
\* projection; hence getChangedFiles() is a subset of getTrackedFiles().
C30_QueuedPathsTracked ==
  /\ \A i \in 1..Len(operationQueue) :
       /\ originalStates[operationQueue[i].path].captured
       /\ MapHas(latestContent, operationQueue[i].path)
  /\ \A i \in 1..Len(GetChangedFiles(Tree)) :
       GetChangedFiles(Tree)[i] \in GetTrackedFiles(Tree)
  /\ \A p \in QueuedPaths(operationQueue) :
       \E i \in 1..Len(GetChangedFiles(Tree)) : GetChangedFiles(Tree)[i] = p

\* one path is queued and a second is tracked without being queued (a call on
\* it was rejected); a checkpoint holds this state and a commit has since
\* changed the disk
C30_Witness ==
  /\ GetChangedFiles(Tree) = <<"a">>
  /\ GetTrackedFiles(Tree) = {"a", "d/f"}
  /\ Len(checkpoints) = 1
  /\ checkpoints[1].savedOperations = operationQueue
  /\ checkpoints[1].savedOriginalStates = originalStates
  /\ disk # baseline

\* C31: in every reachable state and for every path (absent, a regular file
\* or a directory on disk), fileExists(p) returns true if and only if
\* readFile(p) would succeed.
C31_FileExistsAgreesWithReadFile ==
  \A p \in Paths :
    FileExists(latestContent, disk, p) <=> ReadFileOk(latestContent, disk, p)

\* the same agreement for the paths that are not an uncached directory
C31_AgreeOffDirectories ==
  \A p \in Paths :
    (MapHas(latestContent, p) \/ disk[p].kind # "dir") =>
      (FileExists(latestContent, disk, p) <=> ReadFileOk(latestContent, disk, p))

\* the outcomes of the content-staging calls (every staging call but
\* deleteFile) the caller can make in the current state, with their path
ContentStagingOutcomes ==
  { [p |-> p, r |-> AddOperation(Tree, disk, p, type, c)] :
      p \in Paths, type \in {"create", "modify", "append", "prepend"}, c \in Contents }
  \cup { [p |-> p, r |-> OverwriteFile(Tree, disk, p, c)] : p \in Paths, c \in Contents }
  \cup { [p |-> p, r |-> TransformFile(Tree, disk, p, fn)] : p \in Paths, fn \in Transformers }

\* C32: after every successful createFile, modifyFile, appendToFile,
\* prependToFile, overwriteFile or transformFile on path p, the projection
\* entry of p has exists=true, so fileExists(p) is true and readFile(p)
\* returns the projected content; this holds for every path on which the
\* call succeeds, a directory on disk included.
C32_StagedPathExists ==
  \A o \in ContentStagingOutcomes :
    o.r.err = "none" =>
      /\ MapHas(o.r.t.latestContent, o.p)
      /\ MapGet(o.r.t.latestContent, o.p).exists
      /\ FileExists(o.r.t.latestContent, disk, o.p)
      /\ ReadFileOk(o.r.t.latestContent, disk, o.p)
      /\ ReadFileContent(o.r.t.latestContent, disk, o.p)
           = MapGet(o.r.t.latestContent, o.p).content

\* the same, for the paths that are not an unprojected directory on disk
C32_StagedPathExistsOffDirectories ==
  \A o \in ContentStagingOutcomes :
    (o.r.err = "none" /\ (MapHas(latestContent, o.p) \/ disk[o.p].kind # "dir")) =>
      /\ MapHas(o.r.t.latestContent, o.p)
      /\ MapGet(o.r.t.latestContent, o.p).exists
      /\ FileExists(o.r.t.latestContent, disk, o.p)
      /\ ReadFileOk(o.r.t.latestContent, disk, o.p)

\* the paths on which the write/unlink loop of commit() calls writeFile or
\* unlink when no call is rejected: every key of latestContent
CommitTargets(lc) == MapKeys(lc)

\* C33: commit() writes or deletes only paths that have at least one operation
\* in the queue: a path that was only read through readFile (and so cached in
\* the projection) but never staged is neither written nor deleted by commit().
C33_CommitTouchesOnlyQueued ==
  ~isCommitted =>
    \A p \in Paths \ QueuedPaths(operationQueue) :
      /\ p \notin CommitTargets(latestContent)
      /\ \A F \in FaultSets : FileView(Commit(Tree, disk, F).disk[p]) = FileView(disk[p])

\* the disk half of C33 alone: commit() leaves the content and existence of
\* every unqueued path as it is
C33_UnqueuedPathsKeepContent ==
  ~isCommitted =>
    \A p \in Paths \ QueuedPaths(operationQueue), F \in FaultSets :
      FileView(Commit(Tree, disk, F).disk[p]) = FileView(disk[p])

\* a rejected write of an unqueued path never makes commit() fail
C33_UnqueuedPathsNeverFailCommit ==
  ~isCommitted =>
    \A p \in Paths \ QueuedPaths(operationQueue) :
      Commit(Tree, disk, {}).err = "none" => Commit(Tree, disk, {p}).err = "none"

\* checkpoint cp was taken before the commit that made the transaction
\* committed: some path was staged after cp was taken (it is queued but cp
\* holds no original state for it) and the commit changed it on disk
PredatesCommit(cp) ==
  \E p \in QueuedPaths(operationQueue) :
    /\ ~cp.savedOriginalStates[p].captured
    /\ FileView(disk[p]) # FileView(baseline[p])

\* the original state of p that the store os holds, as a file view
CapturedView(os, p) == [exists |-> os[p].existed, content |-> os[p].content]

\* C34: if a checkpoint taken before commit() is restored after that commit()
\* succeeded, a subsequent rollback() still restores every path the commit
\* wrote or deleted to its pre-transaction state, and operations staged after
\* the restore capture the pre-transaction state (not the committed state)
\* as their original state.
C34_RestoreKeepsUndo ==
  \A i \in 1..Len(checkpoints) :
    LET cp == checkpoints[i]
        t1 == Restore(Tree, cp)
        r == Rollback(t1, disk, {})
    IN (isCommitted /\ PredatesCommit(cp)) =>
         /\ \A p \in Paths : FileView(r.disk[p]) = FileView(baseline[p])
         /\ \A p \in Paths, type \in {"create", "modify", "append", "prepend", "delete"} :
              LET s == AddOperation(t1, disk, p, type, "x")
              IN s.err = "none" =>
                   CapturedView(s.t.originalStates, p) = FileView(baseline[p])

\* the first half of C34 alone: the rollback() after the restore
C34_RollbackAfterRestore ==
  \A i \in 1..Len(checkpoints) :
    LET r == Rollback(Restore(Tree, checkpoints[i]), disk, {})
    IN (isCommitted /\ PredatesCommit(checkpoints[i])) =>
         \A p \in Paths : FileView(r.disk[p]) = FileView(baseline[p])

\* the second half of C34 alone: the capture by a call staged after the restore
C34_CaptureAfterRestore ==
  \A i \in 1..Len(checkpoints) :
    LET t1 == Restore(Tree, checkpoints[i])
    IN (isCommitted /\ PredatesCommit(checkpoints[i])) =>
         \A p \in Paths, type \in {"create", "modify", "append", "prepend", "delete"} :
           LET s == AddOperation(t1, disk, p, type, "x")
           IN s.err = "none" =>
                CapturedView(s.t.originalStates, p) = FileView(baseline[p])

\* C35: a successful commit() finalizes the transaction: between that commit
\* and the next rollback(), initialize() or checkpoint restore, no staging
\* call appends to the queue or changes the projection, so there is never a
\* queued operation that no commit can materialize.
C35_CommitFinalizes ==
  isCommitted =>
    \A r \in StagingOutcomes :
      /\ r.t.operationQueue = operationQueue
      /\ r.t.latestContent = latestContent

\* C36: a staging call that fails validation leaves the original-state store
\* unchanged: getTrackedFiles() returns the same set of paths after the
\* failed call as before it.
C36_FailedCallKeepsTrackedFiles ==
  \A r \in StagingOutcomes :
    r.err # "none" =>
      /\ r.t.originalStates = originalStates
      /\ GetTrackedFiles(r.t) = GetTrackedFiles(Tree)

\* a failed staging call on a path whose original state is already captured
\* leaves the store unchanged
C36_FailedCallOnTrackedPath ==
  \A p \in Paths, type \in {"create", "modify", "append", "prepend", "delete"} :
    LET r == AddOperation(Tree, disk, p, type, "x")
    IN (r.err # "none" /\ originalStates[p].captured) =>
         r.t.originalStates = originalStates

\* ------------------------------------------- overlapping staging calls
\* createFile, modifyFile, appendToFile, prependToFile and deleteFile are
\* async functions around _addOperation.  A caller that does not await a call
\* before it starts the next one has several calls in flight.  A call gives
\* way to the others only while it waits for a disk read (the stat/readFile
\* of _captureOriginalState and of _updateLatestContent); what follows the
\* read runs through the promise continuations up to the next disk read with
\* no other call in between.  A continuation that waits for no disk read (the
\* push after _updateLatestContent found the path cached) runs once the
\* caller's synchronous code is done and before any disk read returns.

\* the switch of _updateLatestContent: the new projection entry of p
NewState(currentState, p, type, content) ==
  CASE type = "create"  -> [path |-> p, content |-> content, exists |-> TRUE]
    [] type = "modify"  -> [path |-> p, content |-> content, exists |-> currentState.exists]
    [] type = "append"  -> [path |-> p, content |-> currentState.content \o content,
                            exists |-> currentState.exists]
    [] type = "prepend" -> [path |-> p, content |-> content \o currentState.content,
                            exists |-> currentState.exists]
    [] type = "delete"  -> [path |-> p, content |-> "", exists |-> FALSE]

\* what the steps of an overlapping call leave alone
InFlightUnchanged ==
  UNCHANGED <<disk, isCommitted, checkpoints, baseline, commitCalled, committedOnce, calls,
              pc, runCommits, pluginCommits, flow, operations, imported>>

\* _addOperation of a call from the validation up to its next wait, with os
\* the original-state store: a failed check throws; otherwise
\* _updateLatestContent runs, which sets the entry at once when the path is
\* cached (the push is then pending) and else waits for the stat of the path
ValidateOperation(i, call, os) ==
  LET p == call.path
      currentExists == FileExists(latestContent, disk, p)
      err == IF /\ call.type = "create"
                /\ (os[p].existed \/ currentExists)
                /\ ~HasDeleteOperation(operationQueue, p)
             THEN "CreateConflict"
             ELSE IF call.type \in {"modify", "delete", "append", "prepend"} /\ ~currentExists
             THEN "MissingFile"
             ELSE "none"
  IN IF err # "none"
     THEN /\ inflight' = [inflight EXCEPT ![i] = [call EXCEPT !.at = "threw", !.result = err]]
          /\ UNCHANGED latestContent
     ELSE IF MapHas(latestContent, p)
     THEN /\ latestContent' =
               MapSet(latestContent, NewState(MapGet(latestContent, p), p, call.type, call.content))
          /\ inflight' = [inflight EXCEPT ![i] = [call EXCEPT !.at = "push"]]
     ELSE /\ inflight' = [inflight EXCEPT ![i] = [call EXCEPT !.at = "update"]]
          /\ UNCHANGED latestContent

\* a continuation that waits for no disk read is pending
PushPending == \E j \in Calls : inflight[j].at = "push"

\* the caller starts its next call; the call runs to its first wait: the
\* stat of _captureOriginalState when the path has no captured state, else
\* through the validation
startCall(i, p, type, c) ==
  LET call == [at |-> "capture", path |-> p, type |-> type, content |-> c, result |-> "none",
               overlaps |-> \E j \in Calls : inflight[j].at \in {"capture", "update", "push"}]
  IN /\ inflight[i].at = "idle"
     /\ \A j \in 1..(i - 1) : inflight[j].at # "idle"
     /\ IF originalStates[p].captured
        THEN ValidateOperation(i, call, originalStates)
        ELSE /\ inflight' = [inflight EXCEPT ![i] = call]
             /\ UNCHANGED latestContent
     /\ UNCHANGED <<operationQueue, originalStates, operationCounter>>
     /\ InFlightUnchanged

\* the disk reads of _captureOriginalState of call i return: the original
\* state is stored, whether another call stored one meanwhile or not, and
\* _addOperation goes on with the validation
captureDone(i) ==
  LET call == inflight[i]
      os1 == [originalStates EXCEPT ![call.path] = CaptureOriginalState(disk, call.path)]
  IN /\ call.at = "capture"
     /\ ~PushPending
     /\ originalStates' = os1
     /\ ValidateOperation(i, call, os1)
     /\ UNCHANGED <<operationQueue, operationCounter>>
     /\ InFlightUnchanged

\* the disk reads of _updateLatestContent of call i return: currentState is
\* what is on disk, not what another call has cached since the call looked;
\* the entry is set, _addOperation pushes the operation and returns
updateDone(i) ==
  LET call == inflight[i]
  IN /\ call.at = "update"
     /\ ~PushPending
     /\ latestContent' =
          MapSet(latestContent,
                 NewState(DiskState(disk, call.path), call.path, call.type, call.content))
     /\ operationQueue' =
          Append(operationQueue,
                 [id |-> operationCounter + 1, path |-> call.path, type |-> call.type,
                  content |-> call.content])
     /\ operationCounter' = operationCounter + 1
     /\ inflight' = [inflight EXCEPT ![i].at = "returned"]
     /\ UNCHANGED originalStates
     /\ InFlightUnchanged

\* call i, whose path was cached, resumes after
\* 'await this._updateLatestContent(...)', pushes its operation and returns;
\* pending continuations run in the order in which they were scheduled
pushOperation(i) ==
  LET call == inflight[i]
  IN /\ call.at = "push"
     /\ \A j \in 1..(i - 1) : inflight[j].at # "push"
     /\ operationQueue' =
          Append(operationQueue,
                 [id |-> operationCounter + 1, path |-> call.path, type |-> call.type,
                  content |-> call.content])
     /\ operationCounter' = operationCounter + 1
     /\ inflight' = [inflight EXCEPT ![i].at = "returned"]
     /\ UNCHANGED <<originalStates, latestContent>>
     /\ InFlightUnchanged

NextOverlapping ==
  \/ \E i \in Calls, p \in Paths, c \in Contents,
        type \in {"create", "modify", "append", "prepend", "delete"} :
          startCall(i, p, type, IF type = "delete" THEN "" ELSE c)
  \/ \E i \in Calls : captureDone(i)
  \/ \E i \in Calls : updateDone(i)
  \/ \E i \in Calls : pushOperation(i)

\* a fresh transaction on which the caller starts MaxInFlight staging calls,
\* awaiting the earlier ones or not
SpecOverlapping == Init /\ [][NextOverlapping]_vars

\* the queue q[i..] staged one awaited call after the other on the tree t:
\* does every call pass the validation of _addOperation
RECURSIVE AcceptedInSequence(_, _, _, _)
AcceptedInSequence(q, i, t, d) ==
  IF i > Len(q) THEN TRUE
  ELSE LET r == AddOperation(t, d, q[i].path, q[i].type, q[i].content)
       IN r.err = "none" /\ AcceptedInSequence(q, i + 1, r.t, d)

\* two create operations for one path are queued with no delete of the path
\* between them
TwoCreatesWithoutDelete(q) ==
  \E i, j \in 1..Len(q) :
    /\ i < j
    /\ q[i].type = "create" /\ q[j].type = "create" /\ q[i].path = q[j].path
    /\ \A k \in (i + 1)..(j - 1) : ~(q[k].type = "delete" /\ q[k].path = q[i].path)

\* C37: the staging preconditions hold under every interleaving of staging
\* calls that were started without awaiting the previous one: the queue is
\* one that the same calls awaited one after the other would have built; of
\* two createFile calls for the same non-existent path at most one succeeds,
\* and the queue never holds two create operations for one path without a
\* delete between them.
C37_PreconditionsUnderInterleaving ==
  /\ AcceptedInSequence(operationQueue, 1, FreshTree, disk)
  /\ \A i, j \in Calls :
       (/\ i # j
        /\ inflight[i].type = "create" /\ inflight[j].type = "create"
        /\ inflight[i].path = inflight[j].path
        /\ inflight[i].at # "idle"
        /\ ~ExistsSync(disk, inflight[i].path)) =>
         ~(inflight[i].at = "returned" /\ inflight[j].at = "returned")
  /\ ~TwoCreatesWithoutDelete(operationQueue)

\* the same when the caller awaits every call before it starts the next
C37_AwaitedCalls ==
  (\A i \in Calls : ~inflight[i].overlaps) =>
    /\ AcceptedInSequence(operationQueue, 1, FreshTree, disk)
    /\ ~TwoCreatesWithoutDelete(operationQueue)

\* C38: commit() followed by rollback() leaves no trace on disk: besides
\* restoring every touched file, no directory exists under the project root
\* afterwards that did not exist before the transaction (directories created
\* by commit for new nested files are removed again).
C38_RollbackLeavesNoDirectory ==
  [][(isCommitted /\ Rollback(Tree, disk, {}).err = "none" /\ rollbackWith({})) =>
       \A k \in FsKeys :
         /\ FileView(disk'[k]) = FileView(baseline[k])
         /\ disk'[k].kind = "dir" => baseline[k].kind = "dir"]_vars

\* the directory half of C38 alone
C38_NoNewDirectory ==
  [][(isCommitted /\ Rollback(Tree, disk, {}).err = "none" /\ rollbackWith({})) =>
       \A k \in FsKeys : disk'[k].kind = "dir" => baseline[k].kind = "dir"]_vars

====
